---- MODULE Spec2Model ----
(***************************************************************************)
(* Nova Support: the cart/order state held by App, the cart drawer, the    *)
(* text channel's tool loop (ChatInterface.handleSendMessage) and the      *)
(* voice channel's tool dispatch (LiveSupport onmessage).                  *)
(*                                                                         *)
(* React state is modelled as it behaves: a committed value per state      *)
(* cell plus a queue of updates that are applied at the next render.       *)
(* Updates issued by a UI event handler are rendered at the end of that    *)
(* handler; updates issued from asynchronous code (the tool loops) stay    *)
(* queued until the running synchronous segment reaches an await, and are  *)
(* rendered before any other task runs.  A closure sees the committed      *)
(* values of the render that created it.                                   *)
(***************************************************************************)
EXTENDS Integers, Sequences, FiniteSets, TLC

VARIABLES
    cart,          \* App: useState cart (committed value)
    cartQ,         \* App: queued setCart updates, not rendered yet
    currentUser,   \* App: useState currentUser (committed value)
    userQ,         \* App: queued setCurrentUser values, not rendered yet
    language,      \* App: useState language
    CUSTOMERS,     \* mockData: the mutable customer store (id -> orders)
    isCartOpen,    \* App: useState isCartOpen
    checkoutStep,  \* CartDrawer: useState checkoutStep
    lastOrderId,   \* CartDrawer: useState lastOrderId
    messages,      \* ChatInterface: useState messages
    isLoading,     \* ChatInterface: useState isLoading
    cartItemsRef,  \* ChatInterface: cartItemsRef.current
    chatSession,   \* chatService: module variable chatSession
    text,          \* the running handleSendMessage invocation
    sends,         \* number of handleSendMessage invocations so far
    cartRef,       \* LiveSupport: cartRef.current
    live,          \* LiveSupport: the closure of the connected session
    voice,         \* the running onmessage invocations
    session,       \* LiveSupport: status, volume, the refs, and every
                   \* startSession invocation with what it acquired
    audio,         \* LiveSupport: the playback side (output clock,
                   \* nextStartTimeRef, sourcesRef, fragments being decoded)
    events         \* how many UI events and tool-call batches the run has seen

vars == << cart, cartQ, currentUser, userQ, language, CUSTOMERS, isCartOpen,
           checkoutStep, lastOrderId, messages, isLoading, cartItemsRef,
           chatSession, text, sends, cartRef, live, voice, session, audio, events >>

appVars    == << cart, cartQ, currentUser, userQ, language, CUSTOMERS, isCartOpen >>
drawerVars == << checkoutStep, lastOrderId >>
chatVars   == << messages, isLoading, chatSession, text, sends >>
refVars    == << cartItemsRef, cartRef >>
liveVars   == << live, voice, session, audio >>

-----------------------------------------------------------------------------
(* Bounds of the model *)

MaxQty    == 2   \* |quantity| of a cart entry never exceeds this
MaxOrders == 2   \* checkouts per run
MaxSends  == 1   \* user messages per run
MaxHandlers == 1 \* onmessage invocations running at a time
MaxUiEvents == 3 \* UI events per run
MaxToolBatches == 2 \* tool-call batches the model issues per run, over both channels
MaxStarts == 2   \* startSession invocations per run
MaxClock == 4    \* the output context's clock stops advancing here
MaxDuration == 2 \* length of an audio fragment, in clock units
MaxFragments == 3 \* audio fragments per run
MaxDecoders == 2 \* onmessage invocations awaiting decodeAudioData at a time
MaxCatalog == 36 \* products of the catalog that searchProducts goes through

(* Program constants *)

TurnBound == 5   \* while (... && turns < 5)
SearchLimit == 5 \* results.slice(0, 5)

\* Math.floor(Math.random() * 10000): the draws the model considers, one of
\* them the id of a seeded order
RandomIds == {7782, 4242}

\* an optional value: undefined, or a value
Undefined == <<>>
Some(x)   == << x >>

-----------------------------------------------------------------------------
(* Catalog and customers (data/mockData) *)

\* generateProducts: names repeat with period 7 (adj, color and category all
\* use i % 7), so products i and i+7 share a name; prices are drawn once at
\* start-up from 20..169.  Strings are sequences of characters: "V T" stands
\* for "Vintage Red T-Shirt" (category "T"), "M J" for "Modern Blue Jeans".
PRODUCTS ==
    << [id |-> 1000, name |-> <<"V", "T">>, category |-> <<"T">>, price |-> 20],
       [id |-> 1001, name |-> <<"M", "J">>, category |-> <<"J">>, price |-> 50],
       [id |-> 1007, name |-> <<"V", "T">>, category |-> <<"T">>, price |-> 35] >>

ProductIds == { PRODUCTS[i].id : i \in DOMAIN PRODUCTS }

ProductById(pid) == PRODUCTS[CHOOSE i \in DOMAIN PRODUCTS : PRODUCTS[i].id = pid]

RECURSIVE calcTotal(_)
\* calcTotal: items.reduce((acc, item) => acc + price * quantity, 0)
calcTotal(items) ==
    IF items = <<>> THEN 0
    ELSE calcTotal(SubSeq(items, 1, Len(items) - 1))
         + ProductById(items[Len(items)].productId).price * items[Len(items)].quantity

SeedOrder(oid, status, items) ==
    [id |-> oid, status |-> status, items |-> items, total |-> calcTotal(items)]

\* CUSTOMERS: the admin (no orders) and Alice (two seeded orders)
InitCustomers ==
    [c \in {"ADMIN", "C1"} |->
        IF c = "ADMIN" THEN <<>>
        ELSE << SeedOrder(7782, "Delivered",
                          << [productId |-> 1000, quantity |-> 1],
                             [productId |-> 1001, quantity |-> 2] >>),
                SeedOrder(9921, "Processing",
                          << [productId |-> 1007, quantity |-> 1] >>) >>]

CustomerIds == DOMAIN InitCustomers

\* getCustomerOrders
getCustomerOrders(customerId) ==
    IF customerId \in DOMAIN CUSTOMERS THEN CUSTOMERS[customerId] ELSE <<>>

-----------------------------------------------------------------------------
(* Strings *)

\* String.prototype.toLowerCase on one character
LowerChar(ch) ==
    CASE ch = "T" -> "t" [] ch = "J" -> "j" [] ch = "V" -> "v" [] ch = "M" -> "m"
      [] ch = "K" -> "k" [] ch = "S" -> "s" [] ch = "H" -> "h" [] ch = "D" -> "d"
      [] ch = "O" -> "o" [] ch = "C" -> "c" [] ch = "U" -> "u" [] ch = "Z" -> "z"
      [] ch = "P" -> "p" [] ch = "E" -> "e" [] ch = "A" -> "a"
      [] OTHER -> ch

toLowerCase(s) == [i \in DOMAIN s |-> LowerChar(s[i])]

\* String.prototype.includes
includes(s, sub) ==
    \E k \in 0..(Len(s) - Len(sub)) :
        \A j \in 1..Len(sub) : s[k + j] = sub[j]

\* a search in which the last match wins (the behaviour C13 excludes)
FindProductIndexLast(productName) ==
    LET hits == { i \in DOMAIN PRODUCTS :
                    includes(toLowerCase(PRODUCTS[i].name), toLowerCase(productName)) }
    IN  IF hits = {} THEN 0 ELSE CHOOSE i \in hits : \A j \in hits : i >= j

\* PRODUCTS.find(p => p.name.toLowerCase().includes(productName.toLowerCase()))
\* - the index of the first match, 0 when nothing matches
FindProductIndex(productName) ==
    LET hits == { i \in DOMAIN PRODUCTS :
                    includes(toLowerCase(PRODUCTS[i].name), toLowerCase(productName)) }
    IN  IF hits = {} THEN 0 ELSE CHOOSE i \in hits : \A j \in hits : i <= j

-----------------------------------------------------------------------------
(* Product search (data/mockData) *)

\* one letter per word: T-Shirt, Jeans, jacKet, Sneakers, Hat, Dress, hOodie
CATEGORIES == << <<"T">>, <<"J">>, <<"K">>, <<"S">>, <<"H">>, <<"D">>, <<"O">> >>

\* Vintage, Modern, Classic, Urban, coZy, Premium, Essential
ADJECTIVES == << "V", "M", "C", "U", "Z", "P", "E" >>

\* the price drawn for product i: the draws of PRODUCTS, 20 elsewhere
PriceOf(i) == IF 1000 + i \in ProductIds THEN ProductById(1000 + i).price ELSE 20

\* generateProducts: the product of index i (from 0)
Generated(i) ==
    [id       |-> 1000 + i,
     name     |-> << ADJECTIVES[(i % 7) + 1], CATEGORIES[(i % 7) + 1][1] >>,
     category |-> CATEGORIES[(i % 7) + 1],
     price    |-> PriceOf(i)]

\* the catalog that searchProducts goes through, in catalog order; PRODUCTS
\* above holds its entries 0, 1 and 7, the ones that carts are built from
AllProducts == [i \in 1..MaxCatalog |-> Generated(i - 1)]

\* the categories for which the filter is skipped: apparel, clothing, apparels
Apparel  == << "a", "p", "p", "a", "r", "e", "l" >>
Clothing == << "c", "l", "o", "t", "h", "i", "n", "g" >>
Apparels == Apparel \o << "s" >>

\* Array.prototype.slice(0, n)
SliceTo(s, n) == SubSeq(s, 1, IF Len(s) < n THEN Len(s) ELSE n)

\* searchProducts with the slice before the filters (what C28 excludes)
searchProductsSliceFirst(query, category) ==
    LET first == SliceTo(AllProducts, SearchLimit)
        lowerCat == toLowerCase(category[1])
        InCat(p) == includes(toLowerCase(p.category), lowerCat)
        byCat == IF category # Undefined /\ category[1] # <<>>
                    /\ lowerCat \notin {Apparel, Clothing, Apparels}
                 THEN SelectSeq(first, InCat)
                 ELSE first
        lowerQuery == toLowerCase(query[1])
        Named(p) == includes(toLowerCase(p.name), lowerQuery)
    IN  IF query # Undefined /\ query[1] # <<>>
        THEN SelectSeq(byCat, Named)
        ELSE byCat

\* searchProducts(query?, category?): an argument is undefined or a string,
\* and the empty string is falsy
searchProducts(query, category) ==
    LET lowerCat == toLowerCase(category[1])
        InCat(p) == includes(toLowerCase(p.category), lowerCat)
        byCat == IF category # Undefined /\ category[1] # <<>>
                    /\ lowerCat \notin {Apparel, Clothing, Apparels}
                 THEN SelectSeq(AllProducts, InCat)
                 ELSE AllProducts
        lowerQuery == toLowerCase(query[1])
        Named(p) == includes(toLowerCase(p.name), lowerQuery)
        byName == IF query # Undefined /\ query[1] # <<>>
                  THEN SelectSeq(byCat, Named)
                  ELSE byCat
    IN  SliceTo(byName, SearchLimit)

-----------------------------------------------------------------------------
(* Cart updates (App) *)

InCart(c, pid) == \E i \in DOMAIN c : c[i].product = pid

\* an addToCart that appends without looking for an existing entry
\* (the behaviour C6 excludes)
AddUpdaterAppending(prev, pid, quantity) ==
    Append(prev, [product |-> pid, quantity |-> quantity])

\* the updater of addToCart
AddUpdater(prev, pid, quantity) ==
    IF InCart(prev, pid)
    THEN [i \in DOMAIN prev |->
            IF prev[i].product = pid
            THEN [prev[i] EXCEPT !.quantity = @ + quantity]
            ELSE prev[i]]
    ELSE Append(prev, [product |-> pid, quantity |-> quantity])

\* the updater of updateCartItemQuantity
QuantityUpdater(prev, pid, newQuantity) ==
    [i \in DOMAIN prev |->
        IF prev[i].product = pid
        THEN [prev[i] EXCEPT !.quantity = newQuantity]
        ELSE prev[i]]

\* the updater of removeFromCart
RemoveUpdater(prev, pid) == SelectSeq(prev, LAMBDA it : it.product # pid)

\* one queued setCart update applied to the previous value
ApplyUpdate(prev, u) ==
    CASE u.op = "add"    -> AddUpdater(prev, u.product, u.quantity)
      [] u.op = "update" -> QuantityUpdater(prev, u.product, u.quantity)
      [] u.op = "remove" -> RemoveUpdater(prev, u.product)
      [] u.op = "set"    -> <<>>

RECURSIVE ApplyAll(_, _)
\* React processes the queued updates of a state cell in order
ApplyAll(prev, q) == IF q = <<>> THEN prev ELSE ApplyAll(ApplyUpdate(prev, Head(q)), Tail(q))

AddOp(pid, quantity)    == [op |-> "add", product |-> pid, quantity |-> quantity]
UpdateOp(pid, quantity) == [op |-> "update", product |-> pid, quantity |-> quantity]
RemoveOp(pid)           == [op |-> "remove", product |-> pid, quantity |-> 0]
ClearOp                 == [op |-> "set", product |-> 0, quantity |-> 0]

\* the value the cart will have once the queued updates are rendered
NextCart == ApplyAll(cart, cartQ)

\* addToCart also queues setIsCartOpen(true)
QueuesOpen(q) == \E i \in DOMAIN q : q[i].op = "add"

-----------------------------------------------------------------------------
(* Messages (ChatInterface) *)

\* Message ids are Date.now() readings; the model names a reading by the
\* invocation that took it and its role.
Msg(id, sender, txt, streaming) ==
    [id |-> id, sender |-> sender, text |-> txt, isStreaming |-> streaming]

\* the welcome message the reset effect installs
Welcome(user, lang) == Msg(<<0, "welcome">>, "bot", <<"welcome", user.id, lang>>, FALSE)


-----------------------------------------------------------------------------
(* App: checkout *)

RECURSIVE CartTotal(_)
\* cart.reduce((sum, item) => sum + item.product.price * item.quantity, 0)
CartTotal(c) ==
    IF c = <<>> THEN 0
    ELSE CartTotal(SubSeq(c, 1, Len(c) - 1))
         + ProductById(c[Len(c)].product).price * c[Len(c)].quantity

\* cart.map(item => ({ productId: item.product.id, quantity: item.quantity }))
OrderItems(c) == [i \in DOMAIN c |-> [productId |-> c[i].product, quantity |-> c[i].quantity]]

\* handleCheckout: the Order built from the cart its closure sees
NewOrder(oid, c) ==
    [id |-> oid, status |-> "Processing", items |-> OrderItems(c), total |-> CartTotal(c)]

\* handleCheckout: updatedUser, built from the currentUser its closure sees
UpdatedUser(u, order) == [id |-> u.id, orders |-> <<order>> \o u.orders]

\* handleCheckout: the CUSTOMERS store after the order is prepended
StoreWith(u, order) ==
    IF u.id \in DOMAIN CUSTOMERS
    THEN [CUSTOMERS EXCEPT ![u.id] = <<order>> \o @]
    ELSE CUSTOMERS

\* number of orders created so far (bounds the run)
OrdersPlaced ==
    LET n(c) == Len(CUSTOMERS[c]) - Len(InitCustomers[c])
    IN  n("ADMIN") + n("C1")

\* an updateCartItemQuantity that lets 0 through (the behaviour C15 excludes)
updateCartItemQuantityFromZero(pid, newQuantity) ==
    IF newQuantity < 0 THEN <<>> ELSE << UpdateOp(pid, newQuantity) >>

\* updateCartItemQuantity: the updates it queues
updateCartItemQuantity(pid, newQuantity) ==
    IF newQuantity < 1 THEN <<>> ELSE << UpdateOp(pid, newQuantity) >>

QuantityOf(c, pid) ==
    IF InCart(c, pid) THEN c[CHOOSE i \in DOMAIN c : c[i].product = pid].quantity ELSE 0

\* the model keeps quantities within the bound
WithinQty(c) == \A i \in DOMAIN c : c[i].quantity <= MaxQty /\ c[i].quantity >= -MaxQty

-----------------------------------------------------------------------------
(* Rendering *)

\* a synchronous segment of a tool loop is running (JavaScript runs it to
\* completion before any other task)
Dispatching ==
    \/ text.pc \in {"dispatch", "send"}
    \/ \E h \in DOMAIN voice : voice[h].pc \in {"dispatch", "send"}

\* no task is running and nothing waits to be rendered
Quiescent == ~Dispatching /\ cartQ = <<>> /\ userQ = <<>>

\* A render of App with its effects: the queued updates are applied, the
\* refs follow the new cart (ChatInterface and LiveSupport effects), and the
\* ChatInterface reset effect runs when currentUser.id or language changed.
Commit(cq, uq, lang, open) ==
    LET c2 == ApplyAll(cart, cq)
        u2 == IF uq = <<>> THEN currentUser ELSE uq[Len(uq)]
    IN  /\ cart' = c2
        /\ cartQ' = <<>>
        /\ currentUser' = u2
        /\ userQ' = <<>>
        /\ language' = lang
        /\ isCartOpen' = open
        /\ cartItemsRef' = c2
        /\ cartRef' = c2
        /\ IF u2.id # currentUser.id \/ lang # language
           THEN /\ chatSession' = "null"
                /\ messages' = << Welcome(u2, lang) >>
                /\ text' = [text EXCEPT !.reset = TRUE]
           ELSE UNCHANGED << chatSession, messages, text >>

\* the render that follows updates queued by asynchronous code
Render ==
    /\ ~Dispatching
    /\ cartQ # <<>> \/ userQ # <<>>
    /\ Commit(cartQ, userQ, language, isCartOpen \/ QueuesOpen(cartQ))
    /\ UNCHANGED << CUSTOMERS, drawerVars, isLoading, sends, liveVars, events >>

-----------------------------------------------------------------------------
(* UI events: ProductBrowser, header, CartDrawer *)

uiFrame == << CUSTOMERS, isLoading, sends, liveVars >>

\* a UI event handler runs when no other task does; the run counts it
UiEventStarts ==
    /\ Quiescent
    /\ events.ui < MaxUiEvents
    /\ events' = [events EXCEPT !.ui = @ + 1]

\* ProductBrowser: onClick={() => addToCart(product, 1)}
BrowserAddToCart(pid) ==
    /\ UiEventStarts
    /\ QuantityOf(cart, pid) < MaxQty
    /\ Commit(<< AddOp(pid, 1) >>, <<>>, language, TRUE)
    /\ UNCHANGED << uiFrame, drawerVars >>

\* header: user switcher onChange
SwitchUser(cid) ==
    /\ UiEventStarts
    /\ cid # currentUser.id
    /\ Commit(<<>>, << [id |-> cid, orders |-> CUSTOMERS[cid]] >>, language, isCartOpen)
    /\ UNCHANGED << uiFrame, drawerVars >>

\* header: language buttons
SetLanguage(lang) ==
    /\ UiEventStarts
    /\ lang # language
    /\ Commit(<<>>, <<>>, lang, isCartOpen)
    /\ UNCHANGED << uiFrame, drawerVars >>

\* header: cart icon
OpenCart ==
    /\ UiEventStarts
    /\ ~isCartOpen
    /\ Commit(<<>>, <<>>, language, TRUE)
    /\ UNCHANGED << uiFrame, drawerVars >>

\* CartDrawer: closeDrawer
CloseDrawer ==
    /\ UiEventStarts
    /\ isCartOpen
    /\ checkoutStep' = "cart"
    /\ Commit(<<>>, <<>>, language, FALSE)
    /\ UNCHANGED << uiFrame, lastOrderId >>

\* CartDrawer, cart step: remove button
DrawerRemove(pid) ==
    /\ UiEventStarts
    /\ isCartOpen /\ checkoutStep = "cart" /\ InCart(cart, pid)
    /\ Commit(<< RemoveOp(pid) >>, <<>>, language, isCartOpen)
    /\ UNCHANGED << uiFrame, drawerVars >>

\* CartDrawer, cart step: quantity stepper, minus (disabled when quantity <= 1)
DrawerMinus(pid) ==
    /\ UiEventStarts
    /\ isCartOpen /\ checkoutStep = "cart" /\ InCart(cart, pid)
    /\ ~(QuantityOf(cart, pid) <= 1)
    /\ Commit(updateCartItemQuantity(pid, QuantityOf(cart, pid) - 1), <<>>, language, isCartOpen)
    /\ UNCHANGED << uiFrame, drawerVars >>

\* CartDrawer, cart step: quantity stepper, plus
DrawerPlus(pid) ==
    /\ UiEventStarts
    /\ isCartOpen /\ checkoutStep = "cart" /\ InCart(cart, pid)
    /\ QuantityOf(cart, pid) < MaxQty
    /\ Commit(updateCartItemQuantity(pid, QuantityOf(cart, pid) + 1), <<>>, language, isCartOpen)
    /\ UNCHANGED << uiFrame, drawerVars >>

\* updateCartItemQuantity(pid, newQuantity) called from an event handler,
\* with any product id and any quantity
CallUpdateQuantity(pid, newQuantity) ==
    /\ UiEventStarts
    /\ Commit(updateCartItemQuantity(pid, newQuantity), <<>>, language, isCartOpen)
    /\ UNCHANGED << uiFrame, drawerVars >>

\* CartDrawer, cart step: Clear Cart (shown when cart.length > 0)
DrawerClear ==
    /\ UiEventStarts
    /\ isCartOpen /\ checkoutStep = "cart" /\ Len(cart) > 0
    /\ Commit(<< ClearOp >>, <<>>, language, isCartOpen)
    /\ UNCHANGED << uiFrame, drawerVars >>

\* CartDrawer: handleCheckoutClick (shown when cart.length > 0)
CheckoutClick ==
    /\ UiEventStarts
    /\ isCartOpen /\ checkoutStep = "cart" /\ Len(cart) > 0
    /\ checkoutStep' = "review"
    /\ UNCHANGED << appVars, lastOrderId, chatVars, refVars, liveVars >>

\* CartDrawer, review step: back button
BackToCart ==
    /\ UiEventStarts
    /\ isCartOpen /\ checkoutStep = "review"
    /\ checkoutStep' = "cart"
    /\ UNCHANGED << appVars, lastOrderId, chatVars, refVars, liveVars >>

\* CartDrawer: handleConfirmOrder, calling the handleCheckout of the current render
ConfirmOrder(oid) ==
    /\ UiEventStarts
    /\ isCartOpen /\ checkoutStep = "review"
    /\ OrdersPlaced < MaxOrders
    /\ LET order == NewOrder(oid, cart)
       IN  /\ CUSTOMERS' = StoreWith(currentUser, order)
           /\ Commit(<< ClearOp >>, << UpdatedUser(currentUser, order) >>, language, isCartOpen)
    /\ lastOrderId' = Some(oid)
    /\ checkoutStep' = "success"
    /\ UNCHANGED << isLoading, sends, liveVars >>

\* CartDrawer, success step: handleFinalize
Finalize ==
    /\ UiEventStarts
    /\ isCartOpen /\ checkoutStep = "success"
    /\ checkoutStep' = "cart"
    /\ Commit(<<>>, <<>>, language, FALSE)
    /\ UNCHANGED << uiFrame, lastOrderId >>

UiEvent ==
    \/ \E pid \in {1000, 1001} :
          \/ BrowserAddToCart(pid)
          \/ DrawerRemove(pid)
          \/ DrawerMinus(pid)
          \/ DrawerPlus(pid)
    \/ \E cid \in CustomerIds : SwitchUser(cid)
    \/ \E lang \in {"en", "fr"} : SetLanguage(lang)
    \/ OpenCart
    \/ CloseDrawer
    \/ DrawerClear
    \/ CheckoutClick
    \/ BackToCart
    \/ \E oid \in RandomIds : ConfirmOrder(oid)
    \/ Finalize

-----------------------------------------------------------------------------
(* Tool calls issued by the model *)

ToolCall(name, productName, quantity) ==
    [name |-> name, productName |-> productName, quantity |-> quantity,
     query |-> Undefined, category |-> Undefined]

\* search_products with the arguments the model chose
SearchFor(query, category) ==
    [ToolCall("search_products", Undefined, Undefined)
        EXCEPT !.query = query, !.category = category]

Search      == SearchFor(Undefined, Undefined)
GetOrders   == ToolCall("get_my_orders", Undefined, Undefined)
PlaceOrder  == ToolCall("place_order", Undefined, Undefined)
Escalate    == ToolCall("escalate_issue", Undefined, Undefined)
UnknownTool == ToolCall("refund_order", Undefined, Undefined)
AddTo(productName, quantity) == ToolCall("add_to_cart", productName, quantity)

\* the batches of function calls a model response may carry; a call's id is
\* its position in the batch
Batches ==
    { << AddTo(Some(<<"v">>), Undefined) >>,
      << PlaceOrder >>,
      << AddTo(Some(<<"v">>), Undefined), PlaceOrder >>,
      << PlaceOrder, PlaceOrder >>,
      << AddTo(Some(<<"J">>), Some(1)), AddTo(Some(<<"j">>), Some(1)) >>,
      << AddTo(Some(<<"j">>), Some(-1)) >>,
      << AddTo(Some(<<"z">>), Some(2)), AddTo(Some(<<"v">>), Some(2)) >>,
      << AddTo(Undefined, Some(1)), PlaceOrder >>,
      << Escalate, PlaceOrder >>,
      << Search, UnknownTool, GetOrders >> }

\* const qty = quantity || 1  (undefined, 0 and NaN are falsy)
QtyOrOne(quantity) == IF quantity = Undefined \/ quantity = Some(0) THEN 1 ELSE quantity[1]

\* what the add_to_cart calls of a batch add to a product's quantity at most
RECURSIVE BatchAdds(_, _, _)
BatchAdds(batch, pid, sign) ==
    IF batch = <<>> THEN 0
    ELSE LET call == Head(batch)
             hit  == /\ call.name = "add_to_cart"
                     /\ call.productName # Undefined
                     /\ FindProductIndex(call.productName[1]) # 0
                     /\ PRODUCTS[FindProductIndex(call.productName[1])].id = pid
                     /\ QtyOrOne(call.quantity) * sign > 0
         IN  (IF hit THEN QtyOrOne(call.quantity) * sign ELSE 0)
             + BatchAdds(Tail(batch), pid, sign)

BatchOrders(batch) == Cardinality({ i \in DOMAIN batch : batch[i].name = "place_order" })

\* the model run stays within its bounds when this batch is dispatched
BatchFits(batch) ==
    /\ \A pid \in ProductIds :
          /\ QuantityOf(cart, pid) + BatchAdds(batch, pid, 1) <= MaxQty
          /\ QuantityOf(cart, pid) - BatchAdds(batch, pid, -1) >= -MaxQty
    /\ OrdersPlaced + BatchOrders(batch) <= MaxOrders

\* the cross-selling hint of the text channel, by category
TextHint(cat) ==
    CASE cat = <<"T">> -> "Jeans or Sneakers"
      [] cat = <<"J">> -> "T-Shirt or Hoodie"
      [] OTHER         -> "other accessories"

\* the hint of the voice channel
VoiceHint(cat) ==
    CASE cat = <<"T">> -> "Suggest Jeans."
      [] cat = <<"J">> -> "Suggest a T-Shirt."
      [] OTHER         -> ""

\* one entry of functionResponseParts / functionResponses
Part(callId, call, result) == [id |-> callId, name |-> call.name, result |-> result]

Result(kind, success, value) == [kind |-> kind, success |-> success, value |-> value]

UnknownResult     == Result("error", Undefined, "Unknown tool")
ProductsResult(ps) == Result("products", Undefined, ps)
OrdersResult(os)  == Result("orders", Undefined, os)
AddedResult(pid, qty, hint) ==
    Result("added", Some(TRUE), [product |-> pid, qty |-> qty, hint |-> hint])
NotFoundResult    == Result("notfound", Some(FALSE), Undefined)
EmptyCartResult   == Result("empty", Some(FALSE), Undefined)
PlacedResult(oid) == Result("placed", Some(TRUE), oid)
TicketResult      == Result("ticket", Some(TRUE), "TKT")

-----------------------------------------------------------------------------
(* Text channel: ChatInterface.handleSendMessage *)

IdleText ==
    [pc |-> "idle", turns |-> 0, calls |-> <<>>, results |-> <<>>,
     cart |-> <<>>, user |-> [id |-> "ADMIN", orders |-> <<>>], reset |-> FALSE]

\* what a model response carries: text or none, and a batch of calls or none
Responses == [hasText : BOOLEAN, calls : Batches \cup {<<>>}]

\* a rejected sendMessage, by what the catch block looks for in the error text
Rejections == {"api key", "400", "other"}

\* catch: the message chosen from the error text
ErrorMessage(err) ==
    CASE err = "api key" -> "Authentication Error"
      [] err = "400"     -> "Request Error"
      [] OTHER           -> "t.error"

\* the position of the call being dispatched within its batch
CallId(t) == Len(t.results) + 1

\* the state of the invocation after the result of the current call is pushed:
\* the loop goes on, or the collected batch is about to be sent
TextPushed(t, result) ==
    LET rest == Tail(t.calls)
    IN  [t EXCEPT !.results = Append(@, Part(CallId(t), Head(t.calls), result)),
                  !.calls   = rest,
                  !.pc      = IF rest = <<>> THEN "send" ELSE "dispatch"]

\* the invocation has returned: its locals and its closure are gone
TextEnded(t) == [IdleText EXCEPT !.turns = t.turns, !.reset = t.reset]

\* a catch block with no finally after it (the behaviour C39 excludes)
TextCatchWithoutFinally(err, sameMs) ==
    /\ messages' =
          Append(SelectSeq(messages, LAMBDA m : ~(sameMs /\ m.id = <<sends, "bot">>)),
                 Msg(<<sends, "error">>, "system", ErrorMessage(err), FALSE))
    /\ isLoading' = isLoading
    /\ text' = TextEnded(text)

\* catch and finally: the placeholder is filtered by the id (Date.now() + 1)
\* read in the catch block, which is the placeholder's id only when the clock
\* has not advanced (sameMs); the error message is appended; isLoading clears
TextCatch(err, sameMs) ==
    /\ messages' =
          Append(SelectSeq(messages, LAMBDA m : ~(sameMs /\ m.id = <<sends, "bot">>)),
                 Msg(<<sends, "error">>, "system", ErrorMessage(err), FALSE))
    /\ isLoading' = FALSE
    /\ text' = TextEnded(text)

\* the final answer: the placeholder of this invocation is filled
TextFinal ==
    /\ messages' =
          [i \in DOMAIN messages |->
              IF messages[i].id = <<sends, "bot">>
              THEN [messages[i] EXCEPT !.text = "answer", !.isStreaming = FALSE]
              ELSE messages[i]]
    /\ isLoading' = FALSE
    /\ text' = TextEnded(text)

\* handleSendMessage up to its first await
SendMessage ==
    /\ Quiescent
    /\ ~isLoading
    /\ sends < MaxSends
    /\ sends' = sends + 1
    /\ messages' = messages \o << Msg(<<sends', "user">>, "user", "question", FALSE),
                                  Msg(<<sends', "bot">>, "bot", "", TRUE) >>
    /\ isLoading' = TRUE
    /\ chatSession' = "chat"
    /\ text' = [IdleText EXCEPT !.pc = "model", !.cart = cart, !.user = currentUser]
    /\ UNCHANGED << appVars, drawerVars, refVars, liveVars, events >>

\* a handleSendMessage that does not look at isLoading
SendWhileLoadingStartsTurn ==
    /\ UiEventStarts
    /\ isLoading
    /\ sends' = sends + 1
    /\ messages' = messages \o << Msg(<<sends', "user">>, "user", "question", FALSE),
                                  Msg(<<sends', "bot">>, "bot", "", TRUE) >>
    /\ isLoading' = TRUE
    /\ chatSession' = "chat"
    /\ text' = [IdleText EXCEPT !.pc = "model", !.cart = cart, !.user = currentUser]
    /\ UNCHANGED << appVars, drawerVars, refVars, liveVars >>

\* handleSendMessage called (send button, Enter, an option chip) while
\* isLoading is rendered: if (!messageText.trim() || isLoading) return
SendWhileLoading ==
    /\ UiEventStarts
    /\ isLoading
    /\ UNCHANGED << appVars, drawerVars, chatVars, refVars, liveVars >>

\* a tool loop without its bound on the rounds (the behaviour C9 excludes)
ModelRespondsUnbounded(resp) ==
    /\ Quiescent
    /\ text.pc = "model"
    /\ IF resp.calls # <<>>
       THEN /\ BatchFits(resp.calls)
            /\ text' = [text EXCEPT !.pc = "dispatch", !.turns = @ + 1,
                                    !.calls = resp.calls, !.results = <<>>]
            /\ UNCHANGED << messages, isLoading >>
       ELSE IF resp.hasText
            THEN TextFinal
            ELSE TextCatch("other", FALSE)
    /\ UNCHANGED << appVars, drawerVars, refVars, liveVars, chatSession, sends >>

\* await chat.sendMessage resolves: the loop test, then the first call of the
\* batch is up, or the turn ends with the response's text or an error
\* (the run's count of batches is left to the specification)
ModelResponds(resp) ==
    /\ Quiescent
    /\ text.pc = "model"
    /\ IF resp.calls # <<>> /\ text.turns < TurnBound
       THEN /\ BatchFits(resp.calls)
            /\ text' = [text EXCEPT !.pc = "dispatch", !.turns = @ + 1,
                                    !.calls = resp.calls, !.results = <<>>]
            /\ UNCHANGED << messages, isLoading >>
       ELSE IF resp.hasText
            THEN TextFinal
            ELSE TextCatch("other", FALSE)
    /\ UNCHANGED << appVars, drawerVars, refVars, liveVars, chatSession, sends >>

\* await chat.sendMessage rejects; only a rejection of the first request can
\* reach the catch block within the millisecond the placeholder was created in
ModelFails(err, sameMs) ==
    /\ Quiescent
    /\ text.pc = "model"
    /\ sameMs => text.turns = 0
    /\ TextCatch(err, sameMs)
    /\ UNCHANGED << appVars, drawerVars, refVars, liveVars, chatSession, sends, events >>

textFrame == << drawerVars, refVars, liveVars, chatSession, sends, events,
                cart, currentUser, language, isCartOpen >>

TextSearch ==
    /\ text.pc = "dispatch" /\ Head(text.calls).name = "search_products"
    /\ LET call == Head(text.calls)
       IN  text' = TextPushed(text, ProductsResult(searchProducts(call.query, call.category)))
    /\ UNCHANGED << textFrame, cartQ, userQ, CUSTOMERS, messages, isLoading >>

TextGetOrders ==
    /\ text.pc = "dispatch" /\ Head(text.calls).name = "get_my_orders"
    /\ text' = TextPushed(text, OrdersResult(getCustomerOrders(text.user.id)))
    /\ UNCHANGED << textFrame, cartQ, userQ, CUSTOMERS, messages, isLoading >>

TextAddToCart ==
    /\ text.pc = "dispatch" /\ Head(text.calls).name = "add_to_cart"
    /\ LET call == Head(text.calls)
           idx  == FindProductIndex(call.productName[1])
           qty  == QtyOrOne(call.quantity)
       IN  IF call.productName = Undefined
           THEN \* productName.toLowerCase() throws a TypeError
                /\ TextCatch("other", FALSE)
                /\ UNCHANGED cartQ
           ELSE IF idx # 0
           THEN /\ cartQ' = Append(cartQ, AddOp(PRODUCTS[idx].id, qty))
                /\ text' = TextPushed(text, AddedResult(PRODUCTS[idx].id, qty,
                                                        TextHint(PRODUCTS[idx].category)))
                /\ UNCHANGED << messages, isLoading >>
           ELSE /\ text' = TextPushed(text, NotFoundResult)
                /\ UNCHANGED << cartQ, messages, isLoading >>
    /\ UNCHANGED << textFrame, userQ, CUSTOMERS >>

\* place_order: emptiness is read from cartItemsRef, the order is placed by
\* the onCheckout prop of the render in which the message was sent
TextPlaceOrder(oid) ==
    /\ text.pc = "dispatch" /\ Head(text.calls).name = "place_order"
    /\ IF Len(cartItemsRef) = 0
       THEN /\ text' = TextPushed(text, EmptyCartResult)
            /\ UNCHANGED << cartQ, userQ, CUSTOMERS >>
       ELSE LET order == NewOrder(oid, text.cart)
            IN  /\ userQ' = Append(userQ, UpdatedUser(text.user, order))
                /\ CUSTOMERS' = StoreWith(text.user, order)
                /\ cartQ' = Append(cartQ, ClearOp)
                /\ text' = TextPushed(text, PlacedResult(oid))
    /\ UNCHANGED << textFrame, messages, isLoading >>

\* escalate_issue: up to await createEscalationTicket
TextEscalate ==
    /\ text.pc = "dispatch" /\ Head(text.calls).name = "escalate_issue"
    /\ text' = [text EXCEPT !.pc = "ticket"]
    /\ UNCHANGED << textFrame, cartQ, userQ, CUSTOMERS, messages, isLoading >>

\* createEscalationTicket resolves (it never rejects); the loop goes on
TextTicketCreated ==
    /\ Quiescent
    /\ text.pc = "ticket"
    /\ text' = TextPushed(text, TicketResult)
    /\ UNCHANGED << textFrame, cartQ, userQ, CUSTOMERS, messages, isLoading >>

\* currentResponse = await chat.sendMessage({ message: functionResponseParts }):
\* the batch of results goes out as one message
TextSendResults ==
    /\ text.pc = "send"
    /\ text' = [text EXCEPT !.pc = "model", !.results = <<>>]
    /\ UNCHANGED << textFrame, cartQ, userQ, CUSTOMERS, messages, isLoading >>

\* a dispatch that throws on a name it does not know (the behaviour C12 excludes)
TextUnknownRaising ==
    /\ text.pc = "dispatch"
    /\ Head(text.calls).name \notin {"search_products", "get_my_orders", "add_to_cart",
                                     "place_order", "escalate_issue"}
    /\ TextCatch("other", FALSE)
    /\ UNCHANGED << textFrame, cartQ, userQ, CUSTOMERS >>

TextUnknown ==
    /\ text.pc = "dispatch"
    /\ Head(text.calls).name \notin {"search_products", "get_my_orders", "add_to_cart",
                                     "place_order", "escalate_issue"}
    /\ text' = TextPushed(text, UnknownResult)
    /\ UNCHANGED << textFrame, cartQ, userQ, CUSTOMERS, messages, isLoading >>

\* the run counts a response whose batch is dispatched
BatchCounted(resp) ==
    IF resp.calls # <<>> /\ text.turns < TurnBound
    THEN /\ events.tools < MaxToolBatches
         /\ events' = [events EXCEPT !.tools = @ + 1]
    ELSE UNCHANGED events

\* the tool loop of handleSendMessage, one call or one send at a time
TextDispatch ==
    \/ TextSearch
    \/ TextGetOrders
    \/ TextAddToCart
    \/ \E oid \in RandomIds : TextPlaceOrder(oid)
    \/ TextEscalate
    \/ TextTicketCreated
    \/ TextUnknown
    \/ TextSendResults

TextStep ==
    \/ SendMessage
    \/ \E resp \in Responses : ModelResponds(resp) /\ BatchCounted(resp)
    \/ \E err \in Rejections, sameMs \in BOOLEAN : ModelFails(err, sameMs)
    \/ TextDispatch

\* the responses of a model that may call tools in every round of a turn
LoopingResponses ==
    [hasText : BOOLEAN,
     calls : { <<>>, << Search, GetOrders >>, << Escalate, UnknownTool >>,
               << AddTo(Some(<<"v">>), Undefined), PlaceOrder >> }]

\* one user message answered by such a model, any number of batches
TextTurn ==
    \/ SendMessage
    \/ \E resp \in LoopingResponses : ModelResponds(resp) /\ UNCHANGED events
    \/ \E err \in Rejections, sameMs \in BOOLEAN : ModelFails(err, sameMs)
    \/ TextDispatch

-----------------------------------------------------------------------------
(* Voice channel: LiveSupport, the tool-call part of onmessage *)

Handlers == 1..MaxHandlers

\* from: the startSession invocation whose session delivered the message
FreeHandler == [pc |-> "free", calls |-> <<>>, results |-> <<>>, from |-> 0]

\* after the result of the current call is pushed: the loop goes on, or the
\* collected batch is about to be handed to session.sendToolResponse
VoicePushed(v, result) ==
    LET rest == Tail(v.calls)
    IN  [v EXCEPT !.results = Append(@, Part(Len(v.results) + 1, Head(v.calls), result)),
                  !.calls   = rest,
                  !.pc      = IF rest = <<>> THEN "send" ELSE "dispatch"]

VoiceAt(h, name) == voice[h].pc = "dispatch" /\ Head(voice[h].calls).name = name

voiceFrame == << drawerVars, refVars, chatVars, live, session, audio,
                 cart, currentUser, language, isCartOpen >>

\* onmessage with message.toolCall, on a session that is open: a new
\* invocation starts on the batch
VoiceToolCall(h, batch) ==
    /\ Quiescent
    /\ voice[h].pc = "free"
    /\ BatchFits(batch)
    /\ events.tools < MaxToolBatches
    /\ events' = [events EXCEPT !.tools = @ + 1]
    /\ \E i \in DOMAIN session.starts :
          /\ session.starts[i].conn = "open"
          /\ voice' = [voice EXCEPT ![h] = [FreeHandler EXCEPT !.pc = "dispatch",
                                                               !.calls = batch,
                                                               !.from = i]]
    /\ UNCHANGED << voiceFrame, cartQ, userQ, CUSTOMERS >>

VoiceSearch(h) ==
    /\ VoiceAt(h, "search_products")
    /\ LET call == Head(voice[h].calls)
       IN  voice' = [voice EXCEPT ![h] =
               VoicePushed(@, ProductsResult(searchProducts(call.query, call.category)))]
    /\ UNCHANGED << voiceFrame, events, cartQ, userQ, CUSTOMERS >>

\* get_my_orders: currentUser is the one of the render that started the session
VoiceGetOrders(h) ==
    /\ VoiceAt(h, "get_my_orders")
    /\ voice' = [voice EXCEPT ![h] = VoicePushed(@, OrdersResult(getCustomerOrders(live.user.id)))]
    /\ UNCHANGED << voiceFrame, events, cartQ, userQ, CUSTOMERS >>

VoiceAddToCart(h) ==
    /\ VoiceAt(h, "add_to_cart")
    /\ LET call == Head(voice[h].calls)
           idx  == FindProductIndex(call.productName[1])
           qty  == QtyOrOne(call.quantity)
       IN  IF call.productName = Undefined
           THEN \* productName.toLowerCase() throws: the async handler rejects
                /\ voice' = [voice EXCEPT ![h] = FreeHandler]
                /\ UNCHANGED cartQ
           ELSE IF idx # 0
           THEN /\ cartQ' = Append(cartQ, AddOp(PRODUCTS[idx].id, qty))
                /\ voice' = [voice EXCEPT ![h] =
                               VoicePushed(@, AddedResult(PRODUCTS[idx].id, qty,
                                                          VoiceHint(PRODUCTS[idx].category)))]
           ELSE /\ voice' = [voice EXCEPT ![h] = VoicePushed(@, NotFoundResult)]
                /\ UNCHANGED cartQ
    /\ UNCHANGED << voiceFrame, events, userQ, CUSTOMERS >>

\* place_order: emptiness is read from cartRef, the order is placed by
\* placeOrderRef.current, the handleCheckout of the latest render
VoicePlaceOrder(h, oid) ==
    /\ VoiceAt(h, "place_order")
    /\ IF Len(cartRef) = 0
       THEN /\ voice' = [voice EXCEPT ![h] = VoicePushed(@, EmptyCartResult)]
            /\ UNCHANGED << cartQ, userQ, CUSTOMERS >>
       ELSE LET order == NewOrder(oid, cart)
            IN  /\ userQ' = Append(userQ, UpdatedUser(currentUser, order))
                /\ CUSTOMERS' = StoreWith(currentUser, order)
                /\ cartQ' = Append(cartQ, ClearOp)
                /\ voice' = [voice EXCEPT ![h] = VoicePushed(@, PlacedResult(oid))]
    /\ UNCHANGED << voiceFrame, events >>

VoiceEscalate(h) ==
    /\ VoiceAt(h, "escalate_issue")
    /\ voice' = [voice EXCEPT ![h] = [@ EXCEPT !.pc = "ticket"]]
    /\ UNCHANGED << voiceFrame, events, cartQ, userQ, CUSTOMERS >>

VoiceTicketCreated(h) ==
    /\ Quiescent
    /\ voice[h].pc = "ticket"
    /\ voice' = [voice EXCEPT ![h] = VoicePushed(@, TicketResult)]
    /\ UNCHANGED << voiceFrame, events, cartQ, userQ, CUSTOMERS >>

\* activeSessionPromiseRef.current.then(session => session.sendToolResponse(...)):
\* the batch of results goes out and the tool-call part of the invocation is over
VoiceSendToolResponse(h) ==
    /\ voice[h].pc = "send"
    /\ voice' = [voice EXCEPT ![h] = FreeHandler]
    /\ UNCHANGED << voiceFrame, events, cartQ, userQ, CUSTOMERS >>

VoiceUnknown(h) ==
    /\ voice[h].pc = "dispatch"
    /\ Head(voice[h].calls).name \notin {"search_products", "get_my_orders", "add_to_cart",
                                         "place_order", "escalate_issue"}
    /\ voice' = [voice EXCEPT ![h] = VoicePushed(@, UnknownResult)]
    /\ UNCHANGED << voiceFrame, events, cartQ, userQ, CUSTOMERS >>

VoiceStep ==
    \E h \in Handlers :
        \/ \E batch \in Batches : VoiceToolCall(h, batch)
        \/ VoiceSearch(h)
        \/ VoiceGetOrders(h)
        \/ VoiceAddToCart(h)
        \/ \E oid \in RandomIds : VoicePlaceOrder(h, oid)
        \/ VoiceEscalate(h)
        \/ VoiceTicketCreated(h)
        \/ VoiceUnknown(h)
        \/ VoiceSendToolResponse(h)

-----------------------------------------------------------------------------
(* LiveSupport: the life cycle of the voice session *)

\* session.lastRequest is what the user asked for last ("none", "start",
\* "stop"); the component does not keep it, the properties refer to it.
\*
\* Every invocation of startSession has a slot that records where the
\* invocation stands and what it has acquired.  The AudioContexts, the
\* MediaStream and the session of an invocation are locals of that invocation
\* (inputCtx, outputCtx, stream, sessionPromise); the refs of the component
\* name the invocation whose resource they hold, Null for null.

Starts == 1..MaxStarts
Null == 0

\* pc: "unused", "resume" (awaiting resume()), "mic" (awaiting getUserMedia),
\*     "connect" (awaiting sessionPromise), "done", "returned" (the guard or
\*     the missing key ended it), "failed" (the catch block ran).
\* ctx: the two AudioContexts, created and closed together.
\* nodes: the source -> processor -> destination chain of onopen.
\* conn: the session's transport.  closeOnOpen: a stopSession has chained
\*     session.close() on the promise while it was pending.
FreshStart ==
    [pc |-> "unused", ctx |-> "none", stream |-> "none", nodes |-> "none",
     conn |-> "none", closeOnOpen |-> FALSE]

\* LiveSupport as mounted: useState(Disconnected), useState(0), the refs null
Mounted(key) ==
    [apiKey |-> key, mounted |-> TRUE, lastRequest |-> "none",
     status |-> "disconnected", volume |-> 0,
     inputContextRef |-> Null, audioContextRef |-> Null, streamRef |-> Null,
     processorRef |-> Null, sourceNodeRef |-> Null,
     activeSessionPromiseRef |-> Null, isSessionReadyRef |-> FALSE,
     starts |-> [i \in Starts |-> FreshStart]]

\* the session the tool dispatch runs on: invocation 1 has gone through
ConnectedSession ==
    [Mounted(TRUE) EXCEPT
        !.status = "connected", !.lastRequest = "start",
        !.inputContextRef = 1, !.audioContextRef = 1, !.streamRef = 1,
        !.processorRef = 1, !.sourceNodeRef = 1,
        !.activeSessionPromiseRef = 1, !.isSessionReadyRef = TRUE,
        !.starts[1] = [pc |-> "done", ctx |-> "open", stream |-> "live",
                       nodes |-> "connected", conn |-> "open",
                       closeOnOpen |-> FALSE]]

\* ref.current.close() unless the context is closed already
CloseContext(st, ref) ==
    IF ref # Null /\ st[ref].ctx # "closed"
    THEN [st EXCEPT ![ref].ctx = "closed"] ELSE st

\* streamRef.current.getTracks().forEach(track => track.stop())
StopTracks(st, ref) ==
    IF ref # Null THEN [st EXCEPT ![ref].stream = "stopped"] ELSE st

\* try { ref.current.disconnect(); } catch(e) {}
Disconnect(st, ref) ==
    IF ref # Null THEN [st EXCEPT ![ref].nodes = "disconnected"] ELSE st

\* activeSessionPromiseRef.current.then(session => session.close()): runs at
\* once on a settled promise, and when the promise resolves on a pending one
CloseSession(st, ref) ==
    IF ref = Null THEN st
    ELSE IF st[ref].conn = "open" THEN [st EXCEPT ![ref].conn = "closing"]
    ELSE IF st[ref].conn = "connecting" THEN [st EXCEPT ![ref].closeOnOpen = TRUE]
    ELSE st

\* a stopSession that releases what the refs hold but keeps the session ref
\* and the volume
stopSessionKeepingSession(s) ==
    [s EXCEPT
        !.isSessionReadyRef = FALSE,
        !.starts = CloseSession(
                     Disconnect(
                       Disconnect(
                         StopTracks(
                           CloseContext(
                             CloseContext(s.starts, s.inputContextRef),
                             s.audioContextRef),
                           s.streamRef),
                         s.processorRef),
                       s.sourceNodeRef),
                     s.activeSessionPromiseRef),
        !.inputContextRef = Null, !.audioContextRef = Null,
        !.streamRef = Null, !.processorRef = Null, !.sourceNodeRef = Null,
        !.status = "disconnected"]

\* stopSession: what the refs hold is released, the refs are cleared, and the
\* last setStatus of the running segment decides what is rendered
stopSession(s) ==
    [s EXCEPT
        !.isSessionReadyRef = FALSE,
        !.starts = CloseSession(
                     Disconnect(
                       Disconnect(
                         StopTracks(
                           CloseContext(
                             CloseContext(s.starts, s.inputContextRef),
                             s.audioContextRef),
                           s.streamRef),
                         s.processorRef),
                       s.sourceNodeRef),
                     s.activeSessionPromiseRef),
        !.inputContextRef = Null, !.audioContextRef = Null,
        !.streamRef = Null, !.processorRef = Null, !.sourceNodeRef = Null,
        !.activeSessionPromiseRef = Null,
        !.status = "disconnected",
        !.volume = 0]

\* catch (error) { setStatus(ConnectionStatus.Error); stopSession(); }
startFailed(s, i) ==
    stopSession([s EXCEPT !.status = "error", !.starts[i].pc = "failed"])

\* how the AudioContexts come up: running, suspended (resume() is awaited),
\* or the constructor throws in the fallback as well
ContextOutcomes == {"running", "suspended", "throws"}

\* startSession up to its first await
startSession(s, i, outcome) ==
    IF s.activeSessionPromiseRef # Null \/ s.status = "connecting"
    THEN [s EXCEPT !.starts[i].pc = "returned"]
    ELSE IF ~s.apiKey
    THEN [s EXCEPT !.status = "error", !.starts[i].pc = "returned"]
    ELSE IF outcome = "throws"
    THEN startFailed([s EXCEPT !.status = "connecting"], i)
    ELSE IF outcome = "suspended"
    THEN [s EXCEPT !.status = "connecting",
                   !.starts[i].ctx = "open", !.starts[i].pc = "resume"]
    ELSE [s EXCEPT !.status = "connecting",
                   !.starts[i].ctx = "open",
                   !.inputContextRef = i, !.audioContextRef = i,
                   !.starts[i].pc = "mic"]

\* the button that is rendered: stop while connected or connecting, start otherwise
StopButtonShown == session.status \in {"connected", "connecting"}

\* nextStartTimeRef.current = outputCtx.currentTime: the context in
\* audioContextRef is a new one from here on, its clock at zero
NewOutputContext(a) == [a EXCEPT !.currentTime = 0, !.nextStartTimeRef = 0]

\* the steps below are tasks of their own: they run when no synchronous
\* segment of a tool dispatch is running
sessionFrame == << appVars, drawerVars, chatVars, refVars, live, voice, events >>

\* onClick={startSession}
StartClick(outcome) ==
    /\ ~Dispatching
    /\ session.mounted /\ ~StopButtonShown
    /\ \E i \in Starts :
          /\ session.starts[i].pc = "unused"
          /\ \A j \in 1..(i - 1) : session.starts[j].pc # "unused"
          /\ session' = startSession([session EXCEPT !.lastRequest = "start"],
                                      i, outcome)
          /\ audio' = IF session'.starts[i].pc = "mic"
                      THEN NewOutputContext(audio) ELSE audio
    /\ UNCHANGED sessionFrame

\* await inputCtx.resume() / outputCtx.resume() settles; the refs are set after
ResumeSettles(i, resumed) ==
    /\ ~Dispatching
    /\ session.starts[i].pc = "resume"
    /\ session' = IF resumed
                  THEN [session EXCEPT !.inputContextRef = i,
                                       !.audioContextRef = i,
                                       !.starts[i].pc = "mic"]
                  ELSE startFailed(session, i)
    /\ audio' = IF resumed THEN NewOutputContext(audio) ELSE audio
    /\ UNCHANGED sessionFrame

\* await getUserMedia settles; granted, the segment runs on through
\* ai.live.connect(config) to await sessionPromise
MicSettles(i, granted) ==
    /\ ~Dispatching
    /\ session.starts[i].pc = "mic"
    /\ session' = IF granted
                  THEN [session EXCEPT !.streamRef = i,
                                       !.starts[i].stream = "live",
                                       !.starts[i].conn = "connecting",
                                       !.activeSessionPromiseRef = i,
                                       !.starts[i].pc = "connect"]
                  ELSE startFailed(session, i)
    /\ UNCHANGED << sessionFrame, audio >>

\* onopen of invocation i, with the nodes made from its inputCtx and stream.
\* On a closed context the factory methods either work or throw.
onopen(s, i, nodesMade) ==
    IF nodesMade
    THEN [s EXCEPT !.status = "connected",
                   !.sourceNodeRef = i, !.processorRef = i,
                   !.starts[i].nodes = "connected"]
    ELSE [s EXCEPT !.status = "connected"]

\* the continuation of await sessionPromise, then the session.close() that a
\* stopSession chained on the pending promise
sessionReady(s, i) ==
    [s EXCEPT !.isSessionReadyRef = TRUE,
              !.starts[i].pc = "done",
              !.starts[i].conn = IF s.starts[i].closeOnOpen THEN "closing" ELSE "open"]

\* the transport opens: onopen, then the promise resolves
SessionOpens(i, nodesMade) ==
    /\ ~Dispatching
    /\ session.starts[i].pc = "connect"
    /\ session.starts[i].conn = "connecting"
    /\ nodesMade \/ session.starts[i].ctx = "closed"
    /\ session' = sessionReady(onopen(session, i, nodesMade), i)
    /\ UNCHANGED << sessionFrame, audio >>

\* the promise of ai.live.connect rejects: the catch block runs
ConnectRejects(i) ==
    /\ ~Dispatching
    /\ session.starts[i].pc = "connect"
    /\ session.starts[i].conn = "connecting"
    /\ session' = [startFailed(session, i) EXCEPT !.starts[i].conn = "failed"]
    /\ UNCHANGED << sessionFrame, audio >>

\* onerror of invocation i's session: a fault of the transport, during the
\* handshake (the promise stays pending) or later
onerror(s, i) ==
    LET t == stopSession([s EXCEPT !.status = "error", !.volume = 0,
                                   !.isSessionReadyRef = FALSE])
    IN  [t EXCEPT !.starts[i].conn =
                     IF s.starts[i].conn = "connecting" THEN "failed" ELSE "closing"]

TransportError(i) ==
    /\ ~Dispatching
    /\ session.starts[i].conn \in {"connecting", "open"}
    /\ session' = onerror(session, i)
    /\ UNCHANGED << sessionFrame, audio >>

\* onclose of invocation i's session: closed by either side
SessionCloses(i) ==
    /\ ~Dispatching
    /\ session.starts[i].conn \in {"open", "closing"}
    /\ session' = [session EXCEPT !.status = "disconnected", !.volume = 0,
                                  !.isSessionReadyRef = FALSE,
                                  !.starts[i].conn = "closed"]
    /\ UNCHANGED << sessionFrame, audio >>

\* an onaudioprocess that does not look at the ready flag and the session ref
AudioProcessUnguarded(i) ==
    /\ ~Dispatching
    /\ session.starts[i].nodes = "connected"
    /\ session.starts[i].ctx = "open"
    /\ session.starts[i].stream = "live"
    /\ session' = [session EXCEPT !.volume = 1]
    /\ UNCHANGED << sessionFrame, audio >>

\* processor.onaudioprocess of invocation i on a buffer of speech
AudioProcess(i) ==
    /\ ~Dispatching
    /\ session.starts[i].nodes = "connected"
    /\ session.starts[i].ctx = "open"
    /\ session.starts[i].stream = "live"
    /\ session.isSessionReadyRef /\ session.activeSessionPromiseRef # Null
    /\ session' = [session EXCEPT !.volume = 1]
    /\ UNCHANGED << sessionFrame, audio >>

\* onClick={stopSession}
StopClick ==
    /\ ~Dispatching
    /\ session.mounted /\ StopButtonShown
    /\ session' = stopSession([session EXCEPT !.lastRequest = "stop"])
    /\ UNCHANGED << sessionFrame, audio >>

\* the cleanup of the mount effect
Unmount ==
    /\ ~Dispatching
    /\ session.mounted
    /\ session' = stopSession([session EXCEPT !.mounted = FALSE])
    /\ UNCHANGED << sessionFrame, audio >>

-----------------------------------------------------------------------------
(* LiveSupport: playback of the model's audio *)

\* audio.currentTime is the clock of the context in audioContextRef,
\* audio.nextStartTimeRef the playback cursor.  audio.sources lists every
\* AudioBufferSourceNode that was started, with the time it was asked to
\* start at and the interval [from, to) it is audible in; audio.sourcesRef
\* holds the indices of those that are in the set.  audio.decoding holds the
\* onmessage invocations that await decodeAudioData.

Decoders == 1..MaxDecoders

\* seq is the position of the invocation's message among the messages with
\* audio, cut tells that an interruption has been processed since it arrived
IdleDecoder == [pc |-> "idle", duration |-> 0, interrupted |-> FALSE,
                seq |-> 0, cut |-> FALSE]

\* arrived counts the messages with audio; order holds, for each source
\* started, the seq and the cut of the invocation that started it
SilentAudio ==
    [currentTime |-> 0, nextStartTimeRef |-> 0, sourcesRef |-> {},
     sources |-> <<>>, decoding |-> [k \in Decoders |-> IdleDecoder],
     arrived |-> 0, order |-> <<>>]

Max(a, b) == IF a >= b THEN a ELSE b
Min(a, b) == IF a <= b THEN a ELSE b

\* source.start(when) at clock now: a start time in the past starts at once
Started(when, now, duration) ==
    [when |-> when, from |-> Max(when, now), to |-> Max(when, now) + duration,
     stopped |-> FALSE]

\* source.stop() at clock now: what has not played yet is not played
Stopped(src, now) ==
    [src EXCEPT !.to = Max(src.from, Min(src.to, now)), !.stopped = TRUE]

\* if (message.serverContent?.interrupted): stop every source of the set,
\* clear the set, nextStartTimeRef.current = 0
interrupt(a) ==
    [a EXCEPT !.sources = [n \in DOMAIN a.sources |->
                              IF n \in a.sourcesRef
                              THEN Stopped(a.sources[n], a.currentTime)
                              ELSE a.sources[n]],
              !.sourcesRef = {},
              !.nextStartTimeRef = 0]

\* the invocations suspended at await decodeAudioData have seen an
\* interruption go by
Cut(a) ==
    [a EXCEPT !.decoding = [k \in Decoders |->
                               IF @[k].pc = "decode" THEN [@[k] EXCEPT !.cut = TRUE]
                               ELSE @[k]]]

\* the fragments the run has seen
Fragments == audio.arrived

audioFrame == << appVars, drawerVars, chatVars, refVars, live, voice, session, events >>

\* onmessage with serverContent, on a session that is open: with audio of
\* the given duration (0 for none) and with or without the interrupted flag.
\* With audio and an output context, the cursor is raised to the clock and
\* the invocation awaits decodeAudioData; otherwise it goes straight on to
\* the interrupted flag.
ServerContent(k, duration, interrupted) ==
    /\ ~Dispatching
    /\ \E i \in Starts : session.starts[i].conn = "open"
    /\ audio.decoding[k].pc = "idle"
    /\ duration > 0 \/ interrupted
    /\ IF duration > 0 /\ session.audioContextRef # Null
       THEN /\ Fragments < MaxFragments
            /\ audio' = [audio EXCEPT
                  !.nextStartTimeRef = Max(@, audio.currentTime),
                  !.arrived = @ + 1,
                  !.decoding[k] = [pc |-> "decode", duration |-> duration,
                                   interrupted |-> interrupted,
                                   seq |-> audio.arrived + 1, cut |-> FALSE]]
       ELSE /\ interrupted
            /\ audio' = Cut(interrupt(audio))
    /\ UNCHANGED audioFrame

\* decodeAudioData has resolved: the source is started at the cursor, added
\* to the set, and the cursor advances by the duration; then the interrupted
\* flag of the message is looked at
schedule(a, duration) ==
    [a EXCEPT !.sources = Append(@, Started(a.nextStartTimeRef, a.currentTime, duration)),
              !.sourcesRef = @ \cup {Len(a.sources) + 1},
              !.nextStartTimeRef = @ + duration]

Decoded(k, decodes) ==
    /\ ~Dispatching
    /\ audio.decoding[k].pc = "decode"
    /\ LET a1 == [audio EXCEPT !.decoding[k] = IdleDecoder]
           a2 == IF decodes
                 THEN [schedule(a1, audio.decoding[k].duration) EXCEPT
                          !.order = Append(@, [seq |-> audio.decoding[k].seq,
                                               cut |-> audio.decoding[k].cut])]
                 ELSE a1
       IN  audio' = IF audio.decoding[k].interrupted THEN Cut(interrupt(a2)) ELSE a2
    /\ UNCHANGED audioFrame

\* the output clock advances; a source that has played to its end fires
\* 'ended' and is deleted from the set
ClockAdvances ==
    /\ ~Dispatching
    /\ audio.currentTime < MaxClock
    /\ audio' = [audio EXCEPT
          !.currentTime = @ + 1,
          !.sourcesRef = { n \in @ : audio.sources[n].to > audio.currentTime + 1 }]
    /\ UNCHANGED audioFrame

-----------------------------------------------------------------------------
(* The application *)

\* App as constructed (cart empty, the admin active, English), the chat
\* showing its welcome message, and a voice session connected
InitApp ==
    /\ cart = <<>>
    /\ cartQ = <<>>
    /\ currentUser = [id |-> "ADMIN", orders |-> InitCustomers["ADMIN"]]
    /\ userQ = <<>>
    /\ language = "en"
    /\ CUSTOMERS = InitCustomers
    /\ isCartOpen = FALSE
    /\ checkoutStep = "cart"
    /\ lastOrderId = Undefined
    /\ messages = << Welcome(currentUser, "en") >>
    /\ isLoading = FALSE
    /\ cartItemsRef = <<>>
    /\ chatSession = "null"
    /\ text = IdleText
    /\ sends = 0
    /\ cartRef = <<>>
    /\ live = [user |-> currentUser, language |-> "en"]
    /\ voice = [h \in Handlers |-> FreeHandler]
    /\ audio = SilentAudio
    /\ events = [ui |-> 0, tools |-> 0]

Init == InitApp /\ session = ConnectedSession

\* the storefront with the text assistant
Next == UiEvent \/ Render \/ TextStep

Spec == Init /\ [][Next]_vars

\* the storefront with the voice assistant
NextVoice == UiEvent \/ Render \/ VoiceStep

SpecVoice == Init /\ [][NextVoice]_vars

\* a text turn of any length, nothing else going on
NextTurn == Render \/ TextTurn

SpecTurn == Init /\ [][NextTurn]_vars

\* the batches that only add to the cart
AddBatches ==
    { b \in Batches :
        \A i \in DOMAIN b : b[i].name = "add_to_cart" /\ b[i].productName # Undefined }

\* every way into addToCart, over both channels: the product browser, the
\* text tool loop and the voice tool dispatch
NextAdds ==
    \/ \E pid \in {1000, 1001} : BrowserAddToCart(pid)
    \/ Render
    \/ SendMessage
    \/ \E resp \in [hasText : BOOLEAN, calls : AddBatches \cup {<<>>}] :
          ModelResponds(resp) /\ BatchCounted(resp)
    \/ TextAddToCart
    \/ TextSendResults
    \/ \E h \in Handlers :
          \/ \E batch \in AddBatches : VoiceToolCall(h, batch)
          \/ VoiceAddToCart(h)
          \/ VoiceSendToolResponse(h)

SpecAdds == Init /\ [][NextAdds]_vars

\* a batch of look-ups around a call of a tool that does not exist
LookupBatch == << Search, UnknownTool, GetOrders >>

\* both channels dispatching look-ups, the product browser filling the cart
NextLookups ==
    \/ \E pid \in {1000, 1001} : BrowserAddToCart(pid)
    \/ \E cid \in CustomerIds : SwitchUser(cid)
    \/ SendMessage
    \/ \E resp \in [hasText : BOOLEAN, calls : {<<>>, LookupBatch}] :
          ModelResponds(resp) /\ BatchCounted(resp)
    \/ TextSearch
    \/ TextUnknown
    \/ TextGetOrders
    \/ TextSendResults
    \/ \E h \in Handlers :
          \/ VoiceToolCall(h, LookupBatch)
          \/ VoiceSearch(h)
          \/ VoiceUnknown(h)
          \/ VoiceGetOrders(h)
          \/ VoiceSendToolResponse(h)

SpecLookups == Init /\ [][NextLookups]_vars

\* the text channel under send requests at any time of a turn, the user
\* being switched meanwhile or not
NextSends ==
    \/ SendMessage
    \/ SendWhileLoading
    \/ \E cid \in CustomerIds : SwitchUser(cid)
    \/ \E resp \in [hasText : BOOLEAN, calls : {<<>>, << Search >>}] :
          ModelResponds(resp) /\ BatchCounted(resp)
    \/ \E err \in Rejections, sameMs \in BOOLEAN : ModelFails(err, sameMs)
    \/ TextSearch
    \/ TextSendResults

SpecSends == Init /\ [][NextSends]_vars

\* product names the model may ask for: "v", "J", "vT", "tv", "z" and ""
AskedNames == { <<"v">>, <<"J">>, <<"v", "T">>, <<"t", "v">>, <<"z">>, <<>> }

MatchBatches == { << AddTo(Some(n), Some(1)) >> : n \in AskedNames }

\* both channels adding products by name
NextMatch ==
    \/ Render
    \/ SendMessage
    \/ \E resp \in [hasText : BOOLEAN, calls : MatchBatches \cup {<<>>}] :
          ModelResponds(resp) /\ BatchCounted(resp)
    \/ TextAddToCart
    \/ TextSendResults
    \/ \E h \in Handlers :
          \/ \E batch \in MatchBatches : VoiceToolCall(h, batch)
          \/ VoiceAddToCart(h)
          \/ VoiceSendToolResponse(h)

SpecMatch == Init /\ [][NextMatch]_vars

\* updateCartItemQuantity on the carts that the product browser and the
\* voice channel's add_to_cart build
NextQuantity ==
    \/ \E pid \in {1000, 1001} : BrowserAddToCart(pid)
    \/ \E pid \in ProductIds, n \in -1..MaxQty : CallUpdateQuantity(pid, n)
    \/ Render
    \/ \E h \in Handlers :
          \/ \E batch \in AddBatches : VoiceToolCall(h, batch)
          \/ VoiceAddToCart(h)
          \/ VoiceSendToolResponse(h)

SpecQuantity == Init /\ [][NextQuantity]_vars

\* LiveSupport from its mount on, with or without the key it is handed
InitSession == InitApp /\ \E key \in BOOLEAN : session = Mounted(key)

\* the voice session: the two buttons, the unmount, every step a pending
\* startSession can take and every callback of the transport
NextSession ==
    \/ \E outcome \in ContextOutcomes : StartClick(outcome)
    \/ StopClick
    \/ Unmount
    \/ \E i \in Starts :
          \/ \E resumed \in BOOLEAN : ResumeSettles(i, resumed)
          \/ \E granted \in BOOLEAN : MicSettles(i, granted)
          \/ \E nodesMade \in BOOLEAN : SessionOpens(i, nodesMade)
          \/ ConnectRejects(i)
          \/ TransportError(i)
          \/ SessionCloses(i)
          \/ AudioProcess(i)

SpecSession == InitSession /\ [][NextSession]_vars

\* a connected voice session hands an escalation to the integration layer;
\* while the ticket is awaited the user may stop the session and start
\* another one
NextLate ==
    \/ \E h \in Handlers :
          \/ VoiceToolCall(h, << Escalate >>)
          \/ VoiceEscalate(h)
          \/ VoiceTicketCreated(h)
          \/ VoiceSendToolResponse(h)
    \/ StopClick
    \/ StartClick("running")
    \/ \E i \in Starts :
          \/ MicSettles(i, TRUE)
          \/ SessionOpens(i, TRUE)
          \/ SessionCloses(i)

SpecLate == Init /\ [][NextLate]_vars

\* a connected voice session plays what the model says
NextAudio ==
    \/ \E k \in Decoders, duration \in 0..MaxDuration, interrupted \in BOOLEAN :
          ServerContent(k, duration, interrupted)
    \/ \E k \in Decoders, decodes \in BOOLEAN : Decoded(k, decodes)
    \/ ClockAdvances

SpecAudio == Init /\ [][NextAudio]_vars

\* the queries the model may search for: none, "", "v", "VT", "t", "vj", "x"
Queries ==
    { Undefined, Some(<<>>), Some(<<"v">>), Some(<<"V", "T">>), Some(<<"t">>),
      Some(<<"v", "j">>), Some(<<"x">>) }

\* the categories it may name: none, "", "t", "H", "Jx", "x" and the
\* umbrella terms, one of them capitalised
AskedCategories ==
    { Undefined, Some(<<>>), Some(<<"t">>), Some(<<"H">>), Some(<<"J", "x">>),
      Some(<<"x">>), Some(Apparel), Some(Clothing), Some(Apparels),
      Some(<< "A" >> \o Tail(Apparel)) }

SearchBatches == { << SearchFor(q, c) >> : q \in Queries, c \in AskedCategories }

\* both channels searching the catalog
NextSearch ==
    \/ SendMessage
    \/ \E resp \in [hasText : BOOLEAN, calls : SearchBatches \cup {<<>>}] :
          ModelResponds(resp) /\ BatchCounted(resp)
    \/ TextSearch
    \/ TextSendResults
    \/ \E h \in Handlers :
          \/ \E batch \in SearchBatches : VoiceToolCall(h, batch)
          \/ VoiceSearch(h)
          \/ VoiceSendToolResponse(h)

SpecSearch == Init /\ [][NextSearch]_vars

\* the responses with which a turn can leave by every exit: those of a
\* looping model, and a batch whose add_to_cart carries no productName
ExitResponses ==
    LoopingResponses
        \cup [hasText : BOOLEAN, calls : { << AddTo(Undefined, Undefined) >> }]

\* the model call of the turn returns
ModelReturns == \E resp \in ExitResponses : ModelResponds(resp) /\ UNCHANGED events

\* the model call of the turn fails
ModelRejects == \E err \in Rejections, sameMs \in BOOLEAN : ModelFails(err, sameMs)

\* one text turn, ended by any of its exits, the customer being switched
\* meanwhile or not
NextLoading ==
    \/ Render
    \/ \E cid \in CustomerIds : SwitchUser(cid)
    \/ SendMessage
    \/ ModelReturns
    \/ ModelRejects
    \/ TextDispatch

\* every pending model call settles, the escalation call returns, queued
\* updates are rendered and the handler runs on after each await
SpecLoading ==
    /\ Init
    /\ [][NextLoading]_vars
    /\ WF_vars(Render)
    /\ WF_vars(ModelReturns \/ ModelRejects)
    /\ WF_vars(TextDispatch)

-----------------------------------------------------------------------------
(* Properties *)

\* the customer and the cart that the next render shows
NextUser == IF userQ = <<>> THEN currentUser ELSE userQ[Len(userQ)]

\* handleCheckout runs in this step: from a tool handler, or from the drawer
CheckedOut ==
    \/ Len(userQ') > Len(userQ)
    \/ checkoutStep = "review" /\ checkoutStep' = "success"

\* C1: a checkout on a non-empty cart puts exactly one new order at the front
\* of the active customer's history, with the items and the total of the cart
\* as it was just before, and leaves the cart empty.
C1_CheckoutRecordsTheCart ==
    [][ CheckedOut /\ NextCart # <<>>
        => /\ \E oid \in RandomIds :
                 CUSTOMERS'[NextUser.id]
                    = << NewOrder(oid, NextCart) >> \o CUSTOMERS[NextUser.id]
           /\ NextCart' = <<>> ]_vars

\* C2: with an empty cart no path reaches an order: handleCheckout creates
\* none and the order history stays as it is.
C2_EmptyCartPlacesNoOrder ==
    [][ cart = <<>> /\ cartQ = <<>> => ~CheckedOut /\ CUSTOMERS' = CUSTOMERS ]_vars

\* the last result an invocation has collected
LastResult(inv) == inv.results[Len(inv.results)].result

\* an invocation is about to dispatch place_order right after an add_to_cart
\* of the same batch that succeeded
PlacesAfterAdd(inv) ==
    /\ inv.pc = "dispatch"
    /\ Head(inv.calls).name = "place_order"
    /\ inv.results # <<>>
    /\ LastResult(inv).kind = "added"

\* the order just placed, as the result reports it, holds the product
PlacedWith(result, pid) ==
    /\ result.kind = "placed"
    /\ \E c \in CustomerIds :
          /\ CUSTOMERS'[c] # <<>>
          /\ Head(CUSTOMERS'[c]).id = result.value
          /\ \E i \in DOMAIN Head(CUSTOMERS'[c]).items :
                Head(CUSTOMERS'[c]).items[i].productId = pid

\* C3: in both channels, a place_order that follows a successful add_to_cart
\* in the same batch sees the added item: it does not report an empty cart
\* and the order it creates contains the item.
C3_PlaceOrderSeesBatchAdd ==
    [][ /\ PlacesAfterAdd(text)
           => PlacedWith(LastResult(text'), LastResult(text).value.product)
        /\ \A h \in Handlers :
              PlacesAfterAdd(voice[h])
                 => PlacedWith(LastResult(voice'[h]), LastResult(voice[h]).value.product)
      ]_vars

\* an invocation is about to dispatch place_order on a rendered, non-empty cart
PlacesOnRenderedCart(inv) ==
    /\ inv.pc = "dispatch"
    /\ Head(inv.calls).name = "place_order"
    /\ cartQ = <<>> /\ userQ = <<>>
    /\ cart # <<>>

\* the order just placed, as the result reports it, is the order for c
PlacedExactly(result, c) ==
    /\ result.kind = "placed"
    /\ \E cust \in CustomerIds :
          /\ CUSTOMERS'[cust] # <<>>
          /\ Head(CUSTOMERS'[cust]) = NewOrder(result.value, c)

\* C4: a place_order handler acts on the cart as it is when the handler runs:
\* the order it creates holds exactly the items then in the cart, whatever
\* the cart was when the message was sent or the session started.
C4_PlaceOrderUsesCurrentCart ==
    [][ /\ PlacesOnRenderedCart(text) => PlacedExactly(LastResult(text'), cart)
        /\ \A h \in Handlers :
              PlacesOnRenderedCart(voice[h]) => PlacedExactly(LastResult(voice'[h]), cart)
      ]_vars

\* C5: in every reachable state every cart entry has a quantity of at least 1,
\* whatever quantity argument the model sends with add_to_cart.
C5_QuantitiesAtLeastOne ==
    \A i \in DOMAIN cart : cart[i].quantity >= 1

\* addToCart(pid, q) is called in this step: by the product browser, or by a
\* tool handler (the update is queued)
IssuesAdd(pid, q) ==
    \/ BrowserAddToCart(pid) /\ q = 1
    \/ /\ Len(cartQ') = Len(cartQ) + 1
       /\ cartQ'[Len(cartQ')] = AddOp(pid, q)

EntriesFor(c, pid) == Cardinality({ i \in DOMAIN c : c[i].product = pid })

\* C6: addToCart is additive. After a call for (pid, q) with q >= 1 the cart,
\* as the next render shows it, holds exactly one entry for pid, its quantity
\* is the previous quantity plus q, and the other entries are as before; this
\* also when several calls are queued before a render.
C6_AddToCartIsAdditive ==
    [][ \A pid \in ProductIds, q \in 1..MaxQty :
          IssuesAdd(pid, q)
             => /\ EntriesFor(NextCart', pid) = 1
                /\ QuantityOf(NextCart', pid) = QuantityOf(NextCart, pid) + q
                /\ \A other \in ProductIds \ {pid} :
                      /\ EntriesFor(NextCart', other) = EntriesFor(NextCart, other)
                      /\ QuantityOf(NextCart', other) = QuantityOf(NextCart, other)
      ]_vars

\* two adds of one batch for the same product have been rendered as one
\* entry with the summed quantity
C6_AddsSummed ==
    /\ events = [ui |-> 0, tools |-> 1]
    /\ cart = << [product |-> 1001, quantity |-> 2] >>

\* a handleCheckout has run and its state updates are not rendered yet: the
\* order is already in CUSTOMERS
CheckoutPending == userQ # <<>>

\* C7: a checkout clears the cart atomically with the creation of the order:
\* a tool handler that runs once the order exists sees the cart empty.
C7_CheckoutIsAtomic ==
    /\ text.pc = "dispatch" /\ CheckoutPending => cartItemsRef = <<>>
    /\ \A h \in Handlers :
          voice[h].pc = "dispatch" /\ CheckoutPending => cartRef = <<>>

\* C8: order ids are unique: no two orders in a customer's history, the
\* seeded ones included, share an id.
C8_OrderIdsUnique ==
    \A c \in CustomerIds :
        \A i, j \in DOMAIN CUSTOMERS[c] :
            i # j => CUSTOMERS[c][i].id # CUSTOMERS[c][j].id

\* the reply of the latest user message is on screen: its placeholder holds
\* the answer, or an error message follows it
ReplyVisible ==
    \E i \in DOMAIN messages :
        \/ /\ messages[i].id = << sends, "bot" >>
           /\ messages[i].text = "answer"
           /\ ~messages[i].isStreaming
        \/ /\ messages[i].id = << sends, "error" >>
           /\ messages[i].sender = "system"

\* C9: whatever the model responds to one user message, the turn dispatches
\* at most 5 batches, the response that follows the fifth ends the turn, a
\* turn under way can always go on, and a turn that has ended has put the
\* response's text or an error message on screen.
C9_TurnIsBoundedAndReplies ==
    /\ [](text.turns <= TurnBound)
    /\ [](text.pc # "idle" => ENABLED NextTurn)
    /\ [](sends > 0 /\ text.pc = "idle" => ReplyVisible /\ ~isLoading)
    /\ [][ text.pc = "model" /\ text.turns = TurnBound /\ text' # text
             => text'.pc = "idle" ]_vars

\* a turn has ended after five rounds, with the error message as its reply
C9_FiveRoundsThenFallback ==
    /\ text.pc = "idle"
    /\ text.turns = TurnBound
    /\ messages[Len(messages)].id = << sends, "error" >>

\* the turn under way was started in a conversation that has since been reset
Overtaken == text.pc # "idle" /\ text.reset

\* C10: a turn in flight when the customer or the language changes is
\* discarded: from then on it dispatches no tool call, changes neither cart
\* nor orders, and adds no message to the new conversation.
C10_ResetDiscardsTurn ==
    [][ Overtaken /\ text' # text
        => /\ text'.pc # "dispatch"
           /\ cartQ' = cartQ /\ userQ' = userQ /\ CUSTOMERS' = CUSTOMERS
           /\ messages' = messages ]_vars

\* an invocation is about to dispatch an add_to_cart that lacks productName
AddsWithoutName(inv) ==
    /\ inv.pc = "dispatch"
    /\ Head(inv.calls).name = "add_to_cart"
    /\ Head(inv.calls).productName = Undefined

\* the invocation goes on with the batch, a failure result collected for the call
AnsweredWithFailure(inv, inv2) ==
    /\ inv2.pc \in {"dispatch", "send"}
    /\ Len(inv2.results) = Len(inv.results) + 1
    /\ LastResult(inv2).success = Some(FALSE)

\* C11: an add_to_cart without productName is answered with a structured
\* failure result in both channels: the batch goes on, the session loop is
\* not unwound and no error reaches the user.
C11_MissingArgumentIsAnswered ==
    [][ /\ AddsWithoutName(text)
           => AnsweredWithFailure(text, text') /\ messages' = messages
        /\ \A h \in Handlers :
              AddsWithoutName(voice[h]) => AnsweredWithFailure(voice[h], voice'[h])
      ]_vars

KnownTools ==
    {"search_products", "get_my_orders", "add_to_cart", "place_order", "escalate_issue"}

\* an invocation is about to dispatch a call of a tool that does not exist
DispatchesUnknown(inv) ==
    inv.pc = "dispatch" /\ Head(inv.calls).name \notin KnownTools

\* the invocation goes on with the batch, the error result collected for the call
AnsweredWithError(inv, inv2) ==
    /\ inv2.pc \in {"dispatch", "send"}
    /\ inv2.calls = Tail(inv.calls)
    /\ Len(inv2.results) = Len(inv.results) + 1
    /\ inv2.results[Len(inv2.results)].name = Head(inv.calls).name
    /\ LastResult(inv2).kind = "error"
    /\ LastResult(inv2).success # Some(TRUE)

\* C12: in both channels the dispatch of an unknown tool name collects an
\* error result for the model and goes on with the batch; it raises nothing
\* (no error message, the turn stays loading) and changes neither the cart
\* nor any order history.
C12_UnknownToolIsAnswered ==
    [][ DispatchesUnknown(text) \/ (\E h \in Handlers : DispatchesUnknown(voice[h]))
        => /\ DispatchesUnknown(text) => AnsweredWithError(text, text')
           /\ \A h \in Handlers :
                 DispatchesUnknown(voice[h]) => AnsweredWithError(voice[h], voice'[h])
           /\ UNCHANGED << cart, cartQ, currentUser, userQ, CUSTOMERS,
                           messages, isLoading >>
      ]_vars

\* with items in the cart, the text channel has answered an unknown call
\* and is about to dispatch the next call of the batch
C12_UnknownAnsweredInText ==
    /\ cart # <<>>
    /\ text.pc = "dispatch"
    /\ text.results # <<>>
    /\ LastResult(text) = UnknownResult
    /\ Head(text.calls) = GetOrders

\* two characters are the same letter, case aside
SameLetter(a, b) ==
    \/ a = b
    \/ \E pair \in { <<"T", "t">>, <<"J", "j">>, <<"V", "v">>, <<"M", "m">> } :
          {a, b} = {pair[1], pair[2]}

\* sub occurs in s as a contiguous run of letters, case aside
OccursIn(sub, s) ==
    \E k \in 0..(Len(s) - Len(sub)) :
        \A j \in 1..Len(sub) : SameLetter(s[k + j], sub[j])

\* an invocation is about to dispatch an add_to_cart that names a product
AddsByName(inv) ==
    /\ inv.pc = "dispatch"
    /\ Head(inv.calls).name = "add_to_cart"
    /\ Head(inv.calls).productName # Undefined

\* what C13 requires of the dispatch of add_to_cart(name, quantity)
MatchedAsSubstring(inv, inv2) ==
    LET name == Head(inv.calls).productName[1]
        hits == { i \in DOMAIN PRODUCTS : OccursIn(name, PRODUCTS[i].name) }
    IN  IF hits = {}
        THEN /\ LastResult(inv2).success = Some(FALSE)
             /\ UNCHANGED << cart, cartQ >>
        ELSE \E first \in hits :
                /\ \A i \in hits : first <= i
                /\ LastResult(inv2).kind = "added"
                /\ LastResult(inv2).value.product = PRODUCTS[first].id
                /\ Len(cartQ') = Len(cartQ) + 1
                /\ cartQ'[Len(cartQ')].op = "add"
                /\ cartQ'[Len(cartQ')].product = PRODUCTS[first].id

\* C13: add_to_cart matches the name as a case-insensitive substring of the
\* catalog names and takes the first product of the catalog that matches;
\* when none matches the result is a failure and the cart is unchanged.
C13_FirstSubstringMatchWins ==
    [][ /\ AddsByName(text) => MatchedAsSubstring(text, text')
        /\ \A h \in Handlers : AddsByName(voice[h]) => MatchedAsSubstring(voice[h], voice'[h])
      ]_vars

\* the first of two products with the matching name is in the cart, and a
\* later add_to_cart that matched nothing has been answered with a failure
C13_MatchedThenNotFound ==
    /\ cart = << [product |-> 1000, quantity |-> 1] >>
    /\ cartQ = <<>>
    /\ text.pc = "send"
    /\ LastResult(text) = NotFoundResult

\* an invocation is about to dispatch an add_to_cart that names a product of
\* the catalog and gives no quantity, or one that is not positive
AddsWithoutPositiveQuantity(inv) ==
    /\ AddsByName(inv)
    /\ FindProductIndex(Head(inv.calls).productName[1]) # 0
    /\ \/ Head(inv.calls).quantity = Undefined
       \/ Head(inv.calls).quantity[1] <= 0

\* the addToCart issued in this step adds one unit
AddsOne ==
    /\ Len(cartQ') = Len(cartQ) + 1
    /\ cartQ'[Len(cartQ')].op = "add"
    /\ cartQ'[Len(cartQ')].quantity = 1

\* C14: an add_to_cart without a quantity, or with a quantity of 0 or less,
\* adds 1 to the cart.
C14_QuantityDefaultsToOne ==
    [][ (\/ AddsWithoutPositiveQuantity(text)
         \/ \E h \in Handlers : AddsWithoutPositiveQuantity(voice[h]))
        => AddsOne ]_vars

\* what C15 requires of updateQuantity(pid, n) on a cart c, giving c2
QuantityUpdated(c, c2, pid, n) ==
    IF n < 1 \/ ~InCart(c, pid)
    THEN c2 = c
    ELSE /\ Len(c2) = Len(c)
         /\ \A i \in DOMAIN c :
               /\ c2[i].product = c[i].product
               /\ c2[i].quantity = IF c[i].product = pid THEN n ELSE c[i].quantity

\* C15: updateQuantity(id, n) with n < 1 leaves the cart as it is; with
\* n >= 1 it sets the quantity of the entry with that id and changes no
\* other entry; an id that is not in the cart changes nothing.
C15_UpdateQuantityFrame ==
    [][ \A pid \in ProductIds, n \in -1..MaxQty :
          CallUpdateQuantity(pid, n) => QuantityUpdated(cart, cart', pid, n) ]_vars

\* after three events, one of them at least a call of updateQuantity, the
\* cart holds one T-Shirt
C15_QuantityWasUpdated ==
    /\ events = [ui |-> 3, tools |-> 0]
    /\ cart = << [product |-> 1000, quantity |-> 1] >>


\* the invocations of startSession that hold a model session
HoldsSession(i) == session.starts[i].conn \in {"connecting", "open"}

\* the invocations of startSession that hold audio resources
HoldsAudio(i) ==
    \/ session.starts[i].ctx = "open"
    \/ session.starts[i].stream = "live"

\* C16: whatever start requests meet whatever pending acquisition steps, at
\* most one invocation of startSession holds a model session and at most one
\* holds audio resources (contexts, microphone stream) at any time: a start
\* request that finds a session connecting or connected acquires nothing.
C16_OneSessionAtATime ==
    /\ Cardinality({ i \in Starts : HoldsSession(i) }) <= 1
    /\ Cardinality({ i \in Starts : HoldsAudio(i) }) <= 1


\* no invocation of startSession has a step left to run, and no session is
\* on its way to open or to closed
NoStepPending ==
    \A i \in Starts :
        /\ session.starts[i].pc \in {"resume", "mic", "connect"}
              => session.starts[i].conn = "failed"
        /\ session.starts[i].conn \notin {"connecting", "closing"}

\* no media track, audio node, audio context or model session is open
NothingOpen ==
    \A i \in Starts :
        /\ session.starts[i].stream # "live"
        /\ session.starts[i].nodes # "connected"
        /\ session.starts[i].ctx # "open"
        /\ session.starts[i].conn # "open"

\* C17: when the user's last request was a stop, in whatever state it came,
\* and the steps that were pending have run, nothing is open and the status
\* is disconnected.
C17_StopLeavesNothingOpen ==
    (session.lastRequest = "stop" /\ NoStepPending)
        => (NothingOpen /\ session.status = "disconnected")


\* a step in which startSession invocation i fails: it returns on the
\* missing key, or an acquisition step throws or rejects into the catch block
AcquisitionFails(i) ==
    \/ /\ \E outcome \in ContextOutcomes : StartClick(outcome)
       /\ ~session.apiKey
       /\ session.starts[i].pc = "unused" /\ session'.starts[i].pc = "returned"
    \/ session.starts[i].pc # "failed" /\ session'.starts[i].pc = "failed"

\* invocation i holds neither contexts, nor a stream, nor a session
Released(s, i) ==
    /\ s.starts[i].ctx # "open"
    /\ s.starts[i].stream # "live"
    /\ s.starts[i].conn \notin {"connecting", "open"}

\* C18: a start that fails at any acquisition step (missing API key,
\* AudioContext, microphone permission, connect) leaves the status at error
\* and holds nothing of what it had acquired.
C18_FailedStartEndsInError ==
    [][ \A i \in Starts :
          AcquisitionFails(i)
              => (session'.status = "error" /\ Released(session', i)) ]_vars


\* what stopSession leaves of the component: the refs null, the session not
\* ready, the volume at zero
TornDown(s) ==
    /\ s.inputContextRef = Null /\ s.audioContextRef = Null
    /\ s.streamRef = Null
    /\ s.processorRef = Null /\ s.sourceNodeRef = Null
    /\ s.activeSessionPromiseRef = Null
    /\ ~s.isSessionReadyRef
    /\ s.volume = 0

\* C19: the error callback of a session that is connecting or connected
\* leaves the status at error, with the teardown of a stop done; and a status
\* of error changes only when the user asks for a start.
C19_TransportFaultEndsInError ==
    [][ /\ \A i \in Starts :
              TransportError(i)
                  => /\ session'.status = "error"
                     /\ TornDown(session')
                     /\ session'.starts =
                           [stopSession(session).starts EXCEPT
                               ![i].conn = session'.starts[i].conn]
        /\ (session.status = "error" /\ session'.status # "error"
                /\ session'.mounted)
              => \E outcome \in ContextOutcomes : StartClick(outcome) ]_vars


\* a step that runs stopSession as its last call: the stop button, the
\* unmount, the error callback, the catch block of startSession
RunsStopSession ==
    \/ StopClick
    \/ Unmount
    \/ \E i \in Starts :
          \/ TransportError(i)
          \/ session.starts[i].pc # "failed" /\ session'.starts[i].pc = "failed"

\* C20: stopSession is idempotent.  In every state the component reaches, a
\* second call changes nothing of what the first one left, and what one call
\* leaves is: every resource ref null, the session not ready, the status
\* disconnected, the volume zero.  The same holds of the state after every
\* step that ends in stopSession, the error callback included.
C20_StopIsIdempotent ==
    /\ [](LET once == stopSession(session)
          IN  /\ stopSession(once) = once
              /\ TornDown(once)
              /\ once.status = "disconnected")
    /\ [][ RunsStopSession
             => /\ stopSession(session') = session'
                /\ TornDown(session')
                /\ session'.status = "disconnected" ]_vars

\* the stop button and the unmount have both called stopSession, and the
\* session that had opened is torn down
C20_StoppedAndUnmounted ==
    /\ ~session.mounted
    /\ session.lastRequest = "stop"
    /\ session.starts[1].pc = "done"
    /\ session.starts[2].pc = "unused"
    /\ session.starts[1].ctx = "closed"
    /\ session.starts[1].stream = "stopped"
    /\ session.starts[1].nodes = "disconnected"
    /\ session.starts[1].conn = "closing"
    /\ TornDown(session)
    /\ session.status = "disconnected"


\* C21: with the key present, a start request made while the status is
\* disconnected (as mounted, after a stop, after the session was closed from
\* the far side) leaves the status at connecting, whenever the AudioContexts
\* can be created.
C21_StartLeavesDisconnected ==
    [][ \A outcome \in ContextOutcomes \ {"throws"} :
          (StartClick(outcome) /\ session.status = "disconnected"
              /\ session.apiKey)
              => session'.status = "connecting" ]_vars


\* stopSession has run since the session of invocation i delivered a message:
\* the session ref no longer names it
SessionStopped(i) == session.activeSessionPromiseRef # i

\* C22: when the session that asked for a tool call has been stopped before
\* the result is ready, the result is handed to no session, and the step
\* changes neither the status nor any ref of the component (and the
\* invocation ends in the ordinary way).
C22_LateResultIsDiscarded ==
    [][ \A h \in Handlers :
          (VoiceSendToolResponse(h) /\ SessionStopped(voice[h].from))
              => /\ session.activeSessionPromiseRef = Null
                 /\ session' = session
                 /\ voice'[h] = FreeHandler ]_vars


\* two sources are audible at the same time
Overlap(x, y) == x.from < y.to /\ y.from < x.to

\* C23: the fragments play back to back without overlap: a source is asked
\* to start at the later of the cursor and the clock of the moment it is
\* started, so it starts when it is asked to, and no two sources are
\* audible at the same time, whatever the decode delays and arrival times.
C23_FragmentsDoNotOverlap ==
    \A m, n \in DOMAIN audio.sources :
        /\ audio.sources[n].from = audio.sources[n].when
        /\ m < n => ~Overlap(audio.sources[m], audio.sources[n])


\* a step that acts on the interrupted flag of a message
Interrupts ==
    \E k \in Decoders :
        \/ \E duration \in 0..MaxDuration : 
              /\ ServerContent(k, duration, TRUE)
              /\ audio'.decoding[k].pc = "idle"
        \/ \E decodes \in BOOLEAN :
              Decoded(k, decodes) /\ audio.decoding[k].interrupted

\* a step that starts a source
StartsSource ==
    /\ \E k \in Decoders : Decoded(k, TRUE)
    /\ Len(audio'.sources) = Len(audio.sources) + 1

\* C24: an interruption stops every source of the scheduled set (none of
\* them is audible from the clock of the interruption on), empties the set,
\* and leaves the cursor so that the next fragment is scheduled at the
\* clock; and once sources have been stopped by an interruption, every source
\* started afterwards is audible from exactly the time it was scheduled at,
\* so that the one after it follows with no gap.
C24_InterruptionResetsPlayback ==
    [][ /\ Interrupts
            => /\ audio'.sourcesRef = {}
               /\ \A n \in audio.sourcesRef :
                     /\ audio'.sources[n].stopped
                     /\ audio'.sources[n].to <= Max(audio.sources[n].from, audio.currentTime)
               /\ Max(audio'.nextStartTimeRef, audio'.currentTime) = audio'.currentTime
        /\ (StartsSource /\ \E n \in DOMAIN audio.sources : audio.sources[n].stopped)
            => LET new == audio'.sources[Len(audio'.sources)]
               IN  new.from = new.when ]_vars


\* C25: whenever the status is not connected the volume is 0, and every step
\* that takes the status away from connected leaves the volume at 0,
\* whatever the order of onaudioprocess callbacks, stops, closes and errors.
C25_VolumeZeroUnlessConnected ==
    /\ [](session.status # "connected" => session.volume = 0)
    /\ [][ (session.status = "connected" /\ session'.status # "connected")
             => session'.volume = 0 ]_vars

\* a session that was connected has been closed from the far side; its audio
\* nodes are still connected and fed by the microphone
C25_ClosedWithNodesConnected ==
    /\ session.status = "disconnected"
    /\ session.volume = 0
    /\ session.starts[1].conn = "closed"
    /\ session.starts[1].nodes = "connected"
    /\ session.starts[1].ctx = "open"
    /\ session.starts[1].stream = "live"
    /\ session.activeSessionPromiseRef = 1


\* C26: the text channel has one turn in flight at most.  As long as a turn
\* is in flight isLoading is rendered, so a send request that comes during
\* the turn, whenever it comes, returns at the guard and changes nothing of
\* the chat; and a turn starts only when none is in flight.
C26_OneTurnInFlight ==
    /\ [](text.pc # "idle" => isLoading)
    /\ [][ SendWhileLoading => UNCHANGED chatVars ]_vars
    /\ [][ SendMessage => text.pc = "idle" ]_vars

\* a send request has been turned down while the model call of the turn was
\* outstanding
C26_SendRejectedInFlight ==
    /\ events.ui = 1
    /\ currentUser.id = "ADMIN"
    /\ sends = 1
    /\ text.pc = "model"
    /\ isLoading


\* history new is history old with one entry put in front of it
OneInFront(new, old) ==
    /\ Len(new) = Len(old) + 1
    /\ \A i \in DOMAIN old : new[i + 1] = old[i]

\* C27: a checkout leaves the orders that existed as they were: in the
\* store the active customer's history is the new order followed by the
\* history as it was, no other customer's history changes, and the history
\* the application shows for the active customer (currentUser.orders, as
\* the next render has it) is likewise the new order followed by what it was.
C27_CheckoutKeepsExistingOrders ==
    [][ CheckedOut
        => /\ OneInFront(CUSTOMERS'[NextUser.id], CUSTOMERS[NextUser.id])
           /\ \A c \in CustomerIds \ {NextUser.id} : CUSTOMERS'[c] = CUSTOMERS[c]
           /\ NextUser'.id = NextUser.id
           /\ OneInFront(NextUser'.orders, NextUser.orders) ]_vars

\* the products the search is for: the name contains the query and the
\* category contains the category asked for, letter case aside; an absent
\* argument and an umbrella category select everything
Wanted(call) ==
    { i \in DOMAIN AllProducts :
        /\ call.query # Undefined
              => includes(toLowerCase(AllProducts[i].name), toLowerCase(call.query[1]))
        /\ call.category # Undefined
              /\ toLowerCase(call.category[1]) \notin {Apparel, Clothing, Apparels}
              => includes(toLowerCase(AllProducts[i].category),
                          toLowerCase(call.category[1])) }

\* found holds the first five of the wanted products, in catalog order
FirstWanted(found, call) ==
    LET rank(i) == Cardinality({ j \in Wanted(call) : j <= i })
    IN  /\ Len(found) = IF Cardinality(Wanted(call)) < 5 THEN Cardinality(Wanted(call)) ELSE 5
        /\ \A i \in Wanted(call) : rank(i) <= 5 => found[rank(i)] = AllProducts[i]

\* C28: a search_products call is answered with the first five (or fewer)
\* products, in catalog order, whose name contains the query and whose
\* category contains the category, letter case aside; an absent argument
\* does not filter, an umbrella category is ignored, and no match gives the
\* empty sequence.
C28_SearchReturnsFirstFiveMatches ==
    [][ /\ TextSearch => FirstWanted(LastResult(text').value, Head(text.calls))
        /\ \A h \in Handlers :
              VoiceSearch(h) => FirstWanted(LastResult(voice'[h]).value, Head(voice[h].calls))
      ]_vars

\* a search of the text channel has been answered with the first five of the
\* six T-Shirts of the catalog
C28_FiveOfSixShirts ==
    /\ text.pc = "send"
    /\ text.results # <<>>
    /\ LastResult(text).kind = "products"
    /\ Len(LastResult(text).value) = 5
    /\ \A k \in 1..5 : LastResult(text).value[k].id = 1000 + 7 * (k - 1)

\* where a tool round is: its position, the calls still to dispatch and the
\* results collected
Round(t) == << t.pc, t.calls, t.results >>

\* the result of the next call is collected, under the id and the name of
\* that call, and the loop goes on with the calls after it
CollectsNext(t, t2) ==
    /\ t.pc \in {"dispatch", "ticket"}
    /\ t.calls # <<>>
    /\ t2.calls = Tail(t.calls)
    /\ Len(t2.results) = Len(t.results) + 1
    /\ SubSeq(t2.results, 1, Len(t.results)) = t.results
    /\ t2.results[Len(t2.results)].id = Len(t.results) + 1
    /\ t2.results[Len(t2.results)].name = Head(t.calls).name
    /\ t2.pc = IF t2.calls = <<>> THEN "send" ELSE "dispatch"

\* the dispatch of escalate_issue waits for the ticket
AwaitsTicket(t, t2) ==
    /\ t.pc = "dispatch"
    /\ t.calls # <<>> /\ Head(t.calls).name = "escalate_issue"
    /\ t2.pc = "ticket" /\ t2.calls = t.calls /\ t2.results = t.results

\* the follow-up message goes out with a result for every call of the batch
SubmitsAll(t, t2) ==
    /\ t.pc = "send"
    /\ t.calls = <<>>
    /\ t.results # <<>>
    /\ \A k \in DOMAIN t.results : t.results[k].id = k
    /\ t2.pc = "model"

\* C29: a text tool round dispatches the calls of its batch in order, each
\* result collected under the id and the name of its call, one per call; the
\* round ends only with the follow-up message, sent once no call is left and
\* holding all the results in call order.
C29_RoundAnswersEveryCall ==
    [][ text.pc \in {"dispatch", "ticket", "send"} /\ Round(text') # Round(text)
        => \/ CollectsNext(text, text')
           \/ AwaitsTicket(text, text')
           \/ SubmitsAll(text, text') ]_vars

\* an invocation is about to dispatch place_order in a batch in which an
\* earlier place_order has created an order
PlacesAgain(inv) ==
    /\ inv.pc = "dispatch"
    /\ Head(inv.calls).name = "place_order"
    /\ \E k \in DOMAIN inv.results : inv.results[k].result.kind = "placed"

\* the call is answered with the empty-cart failure
AnsweredEmptyCart(inv, inv2) ==
    /\ Len(inv2.results) = Len(inv.results) + 1
    /\ LastResult(inv2).kind = "empty"
    /\ LastResult(inv2).success = Some(FALSE)

\* C30: a place_order dispatched after another place_order of the same batch
\* has created an order creates none: it finds the cart emptied and is
\* answered with the empty-cart failure.
C30_SecondPlaceOrderFindsCartEmpty ==
    [][ /\ PlacesAgain(text) /\ Round(text') # Round(text)
           => AnsweredEmptyCart(text, text') /\ CUSTOMERS' = CUSTOMERS
        /\ \A h \in Handlers :
              PlacesAgain(voice[h]) /\ Round(voice'[h]) # Round(voice[h])
              => AnsweredEmptyCart(voice[h], voice'[h]) /\ CUSTOMERS' = CUSTOMERS
      ]_vars

\* the quantity of a product in an order
OrderedQuantity(order, pid) ==
    IF \E i \in DOMAIN order.items : order.items[i].productId = pid
    THEN order.items[CHOOSE i \in DOMAIN order.items : order.items[i].productId = pid].quantity
    ELSE 0

\* an order created in this step holds at least q units of the product
OrderedNow(pid, q) ==
    \E c \in CustomerIds :
        /\ Len(CUSTOMERS'[c]) > Len(CUSTOMERS[c])
        /\ OrderedQuantity(Head(CUSTOMERS'[c]), pid) >= q

\* the units that the k-th call of the batch added are in the cart to come
\* when the invocation dispatches place_order
PlacesWithAdded(inv, k) ==
    /\ inv.pc = "dispatch"
    /\ Head(inv.calls).name = "place_order"
    /\ k \in DOMAIN inv.results
    /\ inv.results[k].result.kind = "added"
    /\ inv.results[k].result.value.qty > 0
    /\ QuantityOf(NextCart, inv.results[k].result.value.product)
          >= inv.results[k].result.value.qty

\* after the step the units are in the cart to come or in an order just created
UnitsKept(added) ==
    \/ QuantityOf(NextCart', added.product) >= added.qty
    \/ OrderedNow(added.product, added.qty)

\* C31: the units that a successful add_to_cart put in the cart are not lost
\* by a place_order of the same batch: once it has run they are still in the
\* cart or they are part of the order it created.
C31_AddedUnitsAreNotLost ==
    [][ /\ \A k \in DOMAIN text.results :
              PlacesWithAdded(text, k) /\ Round(text') # Round(text)
                 => UnitsKept(text.results[k].result.value)
        /\ \A h \in Handlers : \A k \in DOMAIN voice[h].results :
              PlacesWithAdded(voice[h], k) /\ Round(voice'[h]) # Round(voice[h])
                 => UnitsKept(voice[h].results[k].result.value)
      ]_vars

C33_ResponseGoesToIssuingSession ==
    [][ \A h \in Handlers :
          VoiceSendToolResponse(h)
             => session.activeSessionPromiseRef \in {Null, voice[h].from} ]_vars

\* C34: a fragment whose message arrived before an interruption is not
\* started once that interruption has been processed: no source is started
\* by an invocation that was awaiting the decoding when an interruption was
\* processed.
C34_NoStartAfterInterruption ==
    \A n \in DOMAIN audio.order : ~audio.order[n].cut

\* C38: the fragments are started for playback in the order in which their
\* messages arrived, whichever invocation finishes decoding first.
C38_StartedInArrivalOrder ==
    \A m, n \in DOMAIN audio.order :
        m < n => audio.order[m].seq < audio.order[n].seq

\* the component holds no microphone stream, capture node, audio context or
\* session, and its refs name none
HoldsNothing(s) ==
    /\ \A i \in Starts :
          /\ s.starts[i].stream # "live"
          /\ s.starts[i].nodes # "connected"
          /\ s.starts[i].ctx # "open"
    /\ s.streamRef = Null
    /\ s.processorRef = Null
    /\ s.sourceNodeRef = Null
    /\ s.inputContextRef = Null
    /\ s.audioContextRef = Null
    /\ s.activeSessionPromiseRef = Null

\* C35: when the close callback of the session runs, the microphone stream,
\* the capture nodes, both audio contexts and the session reference are
\* released as they are after a stop by the user: the status is disconnected
\* and no voice resource is held.
C35_RemoteCloseReleasesAll ==
    [][ \A i \in Starts :
          SessionCloses(i) /\ session.starts[i].conn = "open"
             => session'.status = "disconnected" /\ HoldsNothing(session') ]_vars

\* C36: once a text turn has ended, with the final answer or with an error,
\* no message is left in the streaming state: the placeholder of the turn
\* has been filled or removed.
C36_NoPlaceholderAfterTurn ==
    text.pc = "idle" => \A i \in DOMAIN messages : ~messages[i].isStreaming

\* C37: in a connected voice session get_my_orders acts on the customer that
\* place_order acts on, the active one: it answers with the order history
\* of the customer that is active when the call is dispatched, also after a
\* switch of customer during the session.
C37_VoiceLookupUsesActiveCustomer ==
    [][ \A h \in Handlers :
          VoiceGetOrders(h)
             => /\ LastResult(voice'[h]).kind = "orders"
                /\ LastResult(voice'[h]).value = getCustomerOrders(currentUser.id) ]_vars

\* C39: a text turn that has started ends with the loading flag cleared,
\* whichever way it exits, given that every model call and every escalation
\* call settles: the input is not left disabled for ever.
C39_LoadingEventuallyClears ==
    isLoading ~> ~isLoading

\* a turn has ended in the catch block after five rounds of tool calls, and
\* the loading flag is cleared
C39_EndedAfterBudget ==
    /\ sends = 1
    /\ text.pc = "idle"
    /\ text.turns = TurnBound
    /\ ~isLoading
    /\ messages[Len(messages)].sender = "system"

=============================================================================
